---- MODULE Spec2Model ----
(***************************************************************************)
(* Model of the budgeted, cache-coordinated minimax agent of               *)
(* chess-with-llm (CompressedMinimax.ts, LlmMinimax.ts).                   *)
(*                                                                         *)
(* JavaScript runs one task at a time until it reaches an await, so every  *)
(* action below is one synchronous segment: everything a task does from    *)
(* the moment it is resumed until every function it entered has suspended. *)
(* Oracle (LLM) calls complete in any order, and a task whose awaited       *)
(* promise has settled resumes at some later step: the order in which such *)
(* tasks resume is left open.  Budgets are integers in hundredths of a     *)
(* budget unit; values are integers in tenths.                             *)
(***************************************************************************)
EXTENDS Integers, Sequences, FiniteSets, TLC

VARIABLES node, minimaxCache, successorsCache, gameDescriptionCache, cfg,
          gameStates, lastOp

vars ==
  <<node, minimaxCache, successorsCache, gameDescriptionCache, cfg,
    gameStates, lastOp>>

----------------------------------------------------------------------------
(* Bounds of the model *)

\* number of selectMove calls made on the one agent
NSearch == 2

\* cap on the oracle calls one getSuccessors invocation is followed for
CallCap == 6

\* number of moves made on the board after the opening
MaxPly == 3

\* number of moves returned by callGenericAgent that are placed on the board
MaxAgentPly == 1

----------------------------------------------------------------------------
(* Program constants *)

maxLLMTries == 5

targetSuccessorCount == 8

\* 0.1, in hundredths
budgetCacheTolerance == 10

\* the agents built in callGenericAgent.ts (budgets in hundredths)
DefaultCostSetup ==
  [maxDepth |-> 1, totalBudget |-> 50000, getSuccessorsCost |-> 1000,
   stateEvaluationCost |-> 1000, basicMinimaxCost |-> 100]

\* CostSetups passed to the constructor that let the search go deeper
TwoPlyCostSetup ==
  [maxDepth |-> 2, totalBudget |-> 50000, getSuccessorsCost |-> 1000,
   stateEvaluationCost |-> 1000, basicMinimaxCost |-> 100]

\* a CostSetup whose getSuccessorsCost (0.06) is below the cache tolerance
CheapSuccessorsCostSetup ==
  [maxDepth |-> 1, totalBudget |-> 50000, getSuccessorsCost |-> 6,
   stateEvaluationCost |-> 1000, basicMinimaxCost |-> 100]

DeepCostSetup ==
  [maxDepth |-> 5, totalBudget |-> 50000, getSuccessorsCost |-> 1000,
   stateEvaluationCost |-> 1000, basicMinimaxCost |-> 100]

\* a CostSetup with three plies and evaluations that cost 20
DearEvaluationCostSetup ==
  [maxDepth |-> 3, totalBudget |-> 50000, getSuccessorsCost |-> 1000,
   stateEvaluationCost |-> 2000, basicMinimaxCost |-> 100]

\* maxDepth 2, costs 10/10/1 and totalBudget 50
SmallBudgetCostSetup ==
  [maxDepth |-> 2, totalBudget |-> 5000, getSuccessorsCost |-> 1000,
   stateEvaluationCost |-> 1000, basicMinimaxCost |-> 100]

\* a CostSetup whose totalBudget (30) leaves each of two children less than
\* one evaluation costs
StarvedCostSetup ==
  [maxDepth |-> 1, totalBudget |-> 3000, getSuccessorsCost |-> 1000,
   stateEvaluationCost |-> 1000, basicMinimaxCost |-> 100]

\* five plies and totalBudget 123: the fourth ply is reached with budget 80
TightDeepCostSetup ==
  [maxDepth |-> 5, totalBudget |-> 12300, getSuccessorsCost |-> 1000,
   stateEvaluationCost |-> 1000, basicMinimaxCost |-> 100]

\* four plies, evaluations that cost 20 and totalBudget 763: at the third
\* ply a state is reached with budget 180 below a state with two proposed
\* moves and with budget 120 below a state with three
FourPlyCostSetup ==
  [maxDepth |-> 4, totalBudget |-> 76300, getSuccessorsCost |-> 1000,
   stateEvaluationCost |-> 2000, basicMinimaxCost |-> 100]

estimateNumberOfSuccessors == targetSuccessorCount

----------------------------------------------------------------------------
(* The game states the searches meet.                                      *)
(*  R  : white to move, the oracle proposes two moves, to A and to B.      *)
(*  P  : white to move, a knight can capture on c7 or on e7; the oracle    *)
(*       proposes both.  Either capture empties the knight's cell and      *)
(*       leaves the captured cell occupied.  At PQ the black queen can     *)
(*       take the knight on c7 (to PR), at PN the knight on e7 (to PS);    *)
(*       the oracle proposes the capture.                                  *)
(*  S  : black to move, the oracle proposes two moves, to SA and to SB.    *)
(*  D0 : white to move, the oracle proposes two moves, to DA and to DB.    *)
(*       At DA it proposes one reply, to DX; at DB two, to DX2 and to DY.  *)
(*       DX and DX2 have the same side to move and the same occupied cells *)
(*       (the knight or the rook went to d4, and the black queen went to   *)
(*       the cell that was emptied).  At DX it proposes one move, to DZ.   *)
(*  K0 : white to move; the oracle proposes a knight move at every ply,    *)
(*       Nf3 Nf6 Ng1 Ng8, so the board of K4 is the board of K0 again and  *)
(*       the board of K5 that of K1 (only the move history differs).       *)

(*  T  : white to move, two proposed moves (to TA, TB), each answered by   *)
(*       one proposed reply (to TC, TD).                                   *)
(*  M  : white to move, the oracle proposes a mating move (to MA) and a    *)
(*       quiet move (to MB).                                               *)
(*  N  : black to move, the oracle proposes a mating move (to NA) and a    *)
(*       quiet move (to NB).                                               *)
(*  Q  : white to move, a knight can capture on e7 (to QB) or, with mate,  *)
(*       on c7 (to QA); the oracle proposes both, in either order.         *)
(*       Both captures empty the knight's cell and leave the captured cell *)
(*       occupied.                                                         *)
(*  W  : white to move, the oracle proposes a quiet move (to WB, where it  *)
(*       proposes one reply, to WC) and a move that stalemates black (to   *)
(*       WA, where there is no legal move for an answer to name).          *)
(*  V  : white to move, the oracle proposes a mating rook move to an empty *)
(*       cell (Ra8, to VM) and a quiet rook move (Ra7, to VA).  At VA it   *)
(*       proposes Qa8 (to VB), a queen move to the cell of the mate, and   *)
(*       at VB Rb7 (to VC), the rook going to the cell the queen left: VC  *)
(*       has the side to move and the occupied cells of VM.                *)
(*  EP : black to move, the oracle proposes one move, to E0.  E0 is like   *)
(*       D0, with the moves to EA and to EB.  At EA the oracle proposes a  *)
(*       queen move (to EX) and a mating move (to EM); at EB three queen   *)
(*       moves, to EX2, EY and EV.  EX and EX2 have the same side to move  *)
(*       and the same occupied cells; the oracle proposes one move there,  *)
(*       to EZ.                                                            *)

Positions ==
  {"R", "A", "B", "P", "PQ", "PN", "PR", "PS", "M", "MA", "MB", "T", "TA", "TB", "TC", "TD",
   "K0", "K1", "K2", "K3", "K4", "K5", "S", "SA", "SB",
   "D0", "DA", "DB", "DX", "DX2", "DY", "DZ",
   "N", "NA", "NB", "Q", "QA", "QB", "W", "WA", "WB", "WC",
   "EP", "E0", "EA", "EB", "EX", "EX2", "EM", "EY", "EV", "EZ",
   "V", "VM", "VA", "VB", "VC"}

WhiteToMove ==
  {"R", "P", "PR", "PS", "M", "T", "TC", "TD", "K0", "K2", "K4", "SA", "SB",
   "D0", "DX", "DX2", "DY", "NA", "NB", "Q", "W", "WC",
   "E0", "EX", "EX2", "EM", "EY", "EV", "V", "VB"}

turn(p) == IF p \in WhiteToMove THEN "white" ELSE "black"

\* hashCellState has no return statement for an occupied cell, so a hash
\* holds the side to move and which cells are occupied, nothing else
hashGameState(p) ==
  CASE p = "PN" -> "PQ"
    [] p = "K4" -> "K0"
    [] p = "K5" -> "K1"
    [] p = "DX2" -> "DX"
    [] p = "QA" -> "QB"
    [] p = "EX2" -> "EX"
    [] p = "VC" -> "VM"
    [] OTHER -> p

getEndgameState(p) ==
  CASE p \in {"MA", "QA", "VM"} -> "checkmateBlack"
    [] p \in {"NA", "EM"} -> "checkmateWhite"
    [] p = "WA" -> "draw"
    [] OTHER -> "inProgress"

Mv(m, p) == [move |-> m, nextState |-> p]

\* the legal moves the successor oracle's answer names, in its order
OracleMoves(p) ==
  CASE p = "R"  -> {<<Mv("a", "A"), Mv("b", "B")>>}
    [] p = "P"  -> {<<Mv("Nxc7", "PQ"), Mv("Nxe7", "PN")>>}
    [] p = "PQ" -> {<<Mv("Qxc7", "PR")>>}
    [] p = "PN" -> {<<Mv("Qxe7", "PS")>>}
    [] p = "S"  -> {<<Mv("c5", "SA"), Mv("d5", "SB")>>}
    [] p = "D0" -> {<<Mv("Nd4", "DA"), Mv("Rd4", "DB")>>}
    [] p = "DA" -> {<<Mv("Qb3", "DX")>>}
    [] p = "DB" -> {<<Mv("Qd1", "DX2"), Mv("Qh7", "DY")>>}
    [] p = "DX" -> {<<Mv("Kg2", "DZ")>>}
    [] p = "DX2" -> {<<Mv("Kg2", "DZ")>>}
    [] p = "T"  -> {<<Mv("e4", "TA"), Mv("d4", "TB")>>}
    [] p = "TA" -> {<<Mv("e5", "TC")>>}
    [] p = "TB" -> {<<Mv("d5", "TD")>>}
    [] p = "M"  -> {<<Mv("Qh7", "MA"), Mv("Qd1", "MB")>>}
    [] p = "N"  -> {<<Mv("Qh2", "NA"), Mv("Qd8", "NB")>>}
    [] p = "Q"  -> {<<Mv("Nxe7", "QB"), Mv("Nxc7", "QA")>>,
                    <<Mv("Nxc7", "QA"), Mv("Nxe7", "QB")>>}
    [] p = "W"  -> {<<Mv("Kf7", "WB"), Mv("Qg6", "WA")>>}
    [] p = "WA" -> {}
    [] p = "WB" -> {<<Mv("Kh7", "WC")>>}
    [] p = "V"  -> {<<Mv("Ra8", "VM"), Mv("Ra7", "VA")>>}
    [] p = "VA" -> {<<Mv("Qa8", "VB")>>}
    [] p = "VB" -> {<<Mv("Rb7", "VC")>>}
    [] p = "EP" -> {<<Mv("Kg8", "E0")>>}
    [] p = "E0" -> {<<Mv("Nd4", "EA"), Mv("Rd4", "EB")>>}
    [] p = "EA" -> {<<Mv("Qb3", "EX"), Mv("Qg2", "EM")>>}
    [] p = "EB" -> {<<Mv("Qd1", "EX2"), Mv("Qh7", "EY"), Mv("Qh8", "EV")>>}
    [] p = "EX" -> {<<Mv("Kg2", "EZ")>>}
    [] p = "EX2" -> {<<Mv("Kg2", "EZ")>>}
    [] p = "K0" -> {<<Mv("Nf3", "K1")>>}
    [] p = "K1" -> {<<Mv("Nf6", "K2")>>}
    [] p = "K2" -> {<<Mv("Ng1", "K3")>>}
    [] p = "K3" -> {<<Mv("Ng8", "K4")>>}
    [] p = "K4" -> {<<Mv("Nf3", "K5")>>}
    [] p = "K5" -> {<<Mv("Nf6", "K2")>>}
    [] OTHER    -> {<<Mv("x", "R")>>}

\* the legal moves of p the oracle may name.  At PN the black queen takes
\* the knight on e7; c7 holds a black piece there, so Qxc7 is legal at PQ
\* only
validMoveMapping(p) ==
  UNION { {moves[i].move : i \in DOMAIN moves} : moves \in OracleMoves(p) }

\* what stateEvaluation returns, in tenths: P(white) computed from the
\* log-probabilities (0.3, 0.6), or 1 for an answer without log-probabilities
\* whose text is not "black"
EvalValues == {3, 6, 10}

\* an evaluate oracle whose answer depends only on the state it is asked about
StubValue(p) ==
  CASE p \in {"DX", "DX2", "EX", "EX2"} -> 3
    [] p \in {"DY", "EY", "EV"} -> 10
    [] OTHER -> 6

Scenarios ==
  { [costSetup |-> DefaultCostSetup, root |-> "R"],
    [costSetup |-> DefaultCostSetup, root |-> "P"],
    [costSetup |-> DefaultCostSetup, root |-> "M"],
    [costSetup |-> DefaultCostSetup, root |-> "S"],
    [costSetup |-> CheapSuccessorsCostSetup, root |-> "P"],
    [costSetup |-> TwoPlyCostSetup,  root |-> "T"],
    [costSetup |-> DeepCostSetup,    root |-> "K0"] }

\* searches with terminal states among the successors and with tight budgets
CostScenarios ==
  { [costSetup |-> DefaultCostSetup, root |-> "M"],
    [costSetup |-> DefaultCostSetup, root |-> "N"],
    [costSetup |-> DefaultCostSetup, root |-> "Q"],
    [costSetup |-> TwoPlyCostSetup, root |-> "W"],
    [costSetup |-> SmallBudgetCostSetup, root |-> "T"],
    [costSetup |-> StarvedCostSetup, root |-> "R"],
    [costSetup |-> TightDeepCostSetup, root |-> "K0"],
    [costSetup |-> DearEvaluationCostSetup, root |-> "V"] }

----------------------------------------------------------------------------
(* ChessGame: the rules engine.  A cell is modelled by its piece, blankCell  *)
(* standing for { piece: "empty" }; a position is <<row, col>>, white's     *)
(* back row being row 0.  A move is modelled without its algebraic string. *)

Rows == 0..7

Cells == Rows \X Rows

blankCell ==
  [type |-> "empty", color |-> "none", hasMoved |-> FALSE, justMoved2 |-> "undefined"]

\* { type, color, hasMoved: false }, justMoved2 not set
Piece(type, color) ==
  [type |-> type, color |-> color, hasMoved |-> FALSE, justMoved2 |-> "undefined"]

BackRow == <<"rook", "knight", "bishop", "queen", "king", "bishop", "knight", "rook">>

initialGameState ==
  [turn |-> "white",
   boardState |->
     [c \in Cells |->
        CASE c[1] = 0 -> Piece(BackRow[c[2] + 1], "white")
          [] c[1] = 1 -> Piece("pawn", "white")
          [] c[1] = 6 -> Piece("pawn", "black")
          [] c[1] = 7 -> Piece(BackRow[c[2] + 1], "black")
          [] OTHER -> blankCell],
   moveHistory |-> <<>>]

Move(from, to) ==
  [from |-> from, to |-> to, enPassant |-> FALSE, castling |-> FALSE,
   isPawnMoving2 |-> FALSE, promotion |-> "none"]

linearDirections == {<<1, 0>>, <<-1, 0>>, <<0, 1>>, <<0, -1>>}

diagonalDirections == {<<1, 1>>, <<-1, -1>>, <<1, -1>>, <<-1, 1>>}

knightDirections ==
  {<<2, 1>>, <<2, -1>>, <<-2, 1>>, <<-2, -1>>, <<1, 2>>, <<1, -2>>, <<-1, 2>>, <<-1, -2>>}

undefined == <<-1, -1>>

getPosInDirection(position, direction) ==
  LET newRow == position[1] + direction[1]
      newCol == position[2] + direction[2]
  IN IF newRow < 0 \/ newRow > 7 \/ newCol < 0 \/ newCol > 7
     THEN undefined
     ELSE <<newRow, newCol>>

isCellEmpty(gameState, position) == gameState.boardState[position].type = "empty"

isCellEnemy(gameState, position, color) ==
  /\ gameState.boardState[position].type # "empty"
  /\ gameState.boardState[position].color # color

\* the en passant part of getPawnMoves: the pawn is on its fifth row and
\* the pawn beside it, in column position[2] + side, has justMoved2
enPassantMoves(gameState, position, side) ==
  LET piece == gameState.boardState[position]
      direction == IF piece.color = "white" THEN 1 ELSE -1
      besidePos == getPosInDirection(position, <<0, side>>)
      beside == gameState.boardState[besidePos]
  IN IF /\ \/ (piece.color = "white" /\ position[1] = 4)
           \/ (piece.color = "black" /\ position[1] = 3)
        /\ besidePos # undefined
        /\ beside.type = "pawn"
        /\ beside.color # piece.color
        /\ beside.justMoved2 = "true"
     THEN {[Move(position, getPosInDirection(position, <<direction, side>>))
              EXCEPT !.enPassant = TRUE]}
     ELSE {}

getPawnMoves(gameState, position) ==
  LET piece == gameState.boardState[position]
      direction == IF piece.color = "white" THEN 1 ELSE -1
      forwardPos == getPosInDirection(position, <<direction, 0>>)
      leftDiagonalPos == getPosInDirection(position, <<direction, -1>>)
      rightDiagonalPos == getPosInDirection(position, <<direction, 1>>)
      doubleForwardCell == getPosInDirection(position, <<direction * 2, 0>>)
      forward ==
        IF forwardPos # undefined /\ isCellEmpty(gameState, forwardPos)
        THEN {Move(position, forwardPos)}
               \cup (IF /\ ~piece.hasMoved
                        /\ doubleForwardCell # undefined
                        /\ isCellEmpty(gameState, doubleForwardCell)
                     THEN {[Move(position, doubleForwardCell)
                              EXCEPT !.isPawnMoving2 = TRUE]}
                     ELSE {})
        ELSE {}
      captures ==
        {Move(position, p) : p \in
           {q \in {leftDiagonalPos, rightDiagonalPos} :
              q # undefined /\ isCellEnemy(gameState, q, piece.color)}}
  IN forward \cup captures
       \cup enPassantMoves(gameState, position, -1)
       \cup enPassantMoves(gameState, position, 1)

\* the cells getMovesInDirection reaches from newPos on: the empty cells in
\* the direction, and the first occupied one if it holds an enemy
RECURSIVE cellsInDirection(_, _, _, _)
cellsInDirection(gameState, color, newPos, direction) ==
  IF newPos = undefined
  THEN {}
  ELSE IF isCellEmpty(gameState, newPos)
  THEN {newPos} \cup cellsInDirection(gameState, color,
                                      getPosInDirection(newPos, direction), direction)
  ELSE IF isCellEnemy(gameState, newPos, color)
  THEN {newPos}
  ELSE {}

getMovesInDirection(gameState, startPosition, direction) ==
  {Move(startPosition, p) : p \in
     cellsInDirection(gameState, gameState.boardState[startPosition].color,
                      getPosInDirection(startPosition, direction), direction)}

getRookMoves(gameState, position) ==
  UNION {getMovesInDirection(gameState, position, d) : d \in linearDirections}

getBishopMoves(gameState, position) ==
  UNION {getMovesInDirection(gameState, position, d) : d \in diagonalDirections}

getQueenMoves(gameState, position) ==
  getRookMoves(gameState, position) \cup getBishopMoves(gameState, position)

\* one step in each of the directions: the cells that are empty or hold an enemy
stepMoves(gameState, position, directions) ==
  {Move(position, p) : p \in
     {q \in {getPosInDirection(position, d) : d \in directions} :
        /\ q # undefined
        /\ \/ isCellEmpty(gameState, q)
           \/ isCellEnemy(gameState, q, gameState.boardState[position].color)}}

getKnightMoves(gameState, position) == stepMoves(gameState, position, knightDirections)

\* a king that steps in the eight directions and does not castle
getKingMovesAllDirections(gameState, position) ==
  stepMoves(gameState, position, linearDirections \cup diagonalDirections)

\* the king steps in the four linear directions; castling asks for a king
\* that has not moved, a piece that has not moved in the corner and empty
\* cells between them
getKingMoves(gameState, position) ==
  LET piece == gameState.boardState[position]
      row == position[1]
      b == gameState.boardState
      left ==
        IF /\ b[<<row, 0>>].type # "empty" /\ ~b[<<row, 0>>].hasMoved
           /\ \A col \in {1, 2, 3} : b[<<row, col>>].type = "empty"
        THEN {[Move(position, <<row, 2>>) EXCEPT !.castling = TRUE]}
        ELSE {}
      right ==
        IF /\ b[<<row, 7>>].type # "empty" /\ ~b[<<row, 7>>].hasMoved
           /\ \A col \in {5, 6} : b[<<row, col>>].type = "empty"
        THEN {[Move(position, <<row, 6>>) EXCEPT !.castling = TRUE]}
        ELSE {}
  IN stepMoves(gameState, position, linearDirections)
       \cup (IF piece.hasMoved THEN {} ELSE left \cup right)

getMovesFromPosition(gameState, position) ==
  LET type == gameState.boardState[position].type IN
  CASE type = "pawn" -> getPawnMoves(gameState, position)
    [] type = "rook" -> getRookMoves(gameState, position)
    [] type = "knight" -> getKnightMoves(gameState, position)
    [] type = "bishop" -> getBishopMoves(gameState, position)
    [] type = "queen" -> getQueenMoves(gameState, position)
    [] type = "king" -> getKingMoves(gameState, position)
    [] OTHER -> {}

addMoveToHistory(gameState, move) ==
  [gameState EXCEPT !.moveHistory = Append(@, move)]

\* the piece of the from cell gets hasMoved and justMoved2 set and is put in
\* the to cell (a promoted piece in its place), the from cell is emptied
movePieceAccordingToMove(gameState, move) ==
  LET moved == [gameState.boardState[move.from] EXCEPT
                  !.hasMoved = TRUE,
                  !.justMoved2 = IF move.isPawnMoving2 THEN "true" ELSE "false"]
      pieceToPutInToCell ==
        IF move.promotion # "none"
        THEN [type |-> move.promotion, color |-> gameState.turn,
              hasMoved |-> TRUE, justMoved2 |-> "undefined"]
        ELSE moved
  IN [gameState EXCEPT !.boardState =
        [@ EXCEPT ![move.to] = pieceToPutInToCell, ![move.from] = blankCell]]

flipTurn(gameState) ==
  [gameState EXCEPT !.turn = IF @ = "white" THEN "black" ELSE "white"]

executeEnPassant(gameState, move) ==
  LET directionOfCapturedPawn == IF gameState.turn = "white" THEN -1 ELSE 1
      capturedPawn == <<move.to[1] + directionOfCapturedPawn, move.to[2]>>
  IN flipTurn(movePieceAccordingToMove(
       addMoveToHistory(
         [gameState EXCEPT !.boardState[capturedPawn] = blankCell], move), move))

executeCastling(gameState, move) ==
  LET row == move.from[1]
      rookStartCol == IF move.to[2] = 6 THEN 7 ELSE 0
      rookEndCol == IF move.to[2] = 6 THEN 5 ELSE 3
      rook == gameState.boardState[<<row, rookStartCol>>]
  IN flipTurn(movePieceAccordingToMove(
       [addMoveToHistory(gameState, move) EXCEPT
          !.boardState = [@ EXCEPT ![<<row, rookEndCol>>] = rook,
                                   ![<<row, rookStartCol>>] = blankCell]], move))

\* makeMove throws when the from cell is empty or holds a piece of the side
\* that is not to move, and executeEnPassant when there is no pawn to take
makeMoveThrows(gameState, move) ==
  \/ gameState.boardState[move.from].type = "empty"
  \/ gameState.boardState[move.from].color # gameState.turn
  \/ /\ move.enPassant
     /\ gameState.boardState[
          <<move.to[1] + (IF gameState.turn = "white" THEN -1 ELSE 1), move.to[2]>>
        ].type = "empty"

\* the game state after makeMove, which updates it in place
makeMove(gameState, move) ==
  IF move.enPassant THEN executeEnPassant(gameState, move)
  ELSE IF move.castling THEN executeCastling(gameState, move)
  ELSE flipTurn(movePieceAccordingToMove(addMoveToHistory(gameState, move), move))

kingPositions(gameState, color) ==
  {c \in Cells : /\ gameState.boardState[c].type = "king"
                 /\ gameState.boardState[c].color = color}

\* the first king of the colour in row order; throws when there is none
getKingPosition(gameState, color) ==
  CHOOSE c \in kingPositions(gameState, color) :
    \A d \in kingPositions(gameState, color) :
      c[1] < d[1] \/ (c[1] = d[1] /\ c[2] <= d[2])

\* isCheck, for a colour that has a king
isCheck(gameState, color) ==
  LET kingPosition == getKingPosition(gameState, color)
      b == gameState.boardState
  IN \/ \E move \in getRookMoves(gameState, kingPosition) :
          /\ b[move.to].type \in {"rook", "queen"}
          /\ b[move.to].color # color
     \/ \E move \in getBishopMoves(gameState, kingPosition) :
          /\ b[move.to].type # "empty"
          /\ b[move.to].color # color
          /\ \/ b[move.to].type \in {"bishop", "queen"}
             \/ /\ b[move.to].type = "pawn"
                /\ move.to[1] = kingPosition[1] + (IF color = "white" THEN 1 ELSE -1)
     \/ \E move \in getKnightMoves(gameState, kingPosition) :
          /\ b[move.to].type = "knight"
          /\ b[move.to].color # color

\* the move is made on a deep copy and isCheck asked for the side to move
doesMovePutMovingPlayerInCheck(gameState, move) ==
  isCheck(makeMove(gameState, move), gameState.turn)

movesOfColor(gameState, color) ==
  UNION {getMovesFromPosition(gameState, c) :
           c \in {d \in Cells : gameState.boardState[d].color = color}}

\* getAllLegalMoves throws when a move it tries throws in makeMove (the
\* colour is not the side to move) or leaves isCheck without a king of the
\* side to move to find
getAllLegalMovesThrows(gameState, color) ==
  \E move \in movesOfColor(gameState, color) :
    \/ makeMoveThrows(gameState, move)
    \/ kingPositions(makeMove(gameState, move), gameState.turn) = {}

getAllLegalMoves(gameState, color) ==
  {move \in movesOfColor(gameState, color) :
     ~doesMovePutMovingPlayerInCheck(gameState, move)}

\* isCheckmate: "true", "false", or "throws"
isCheckmate(gameState, color) ==
  IF kingPositions(gameState, color) = {} THEN "throws"
  ELSE IF ~isCheck(gameState, color) THEN "false"
  ELSE IF getAllLegalMovesThrows(gameState, color) THEN "throws"
  ELSE IF getAllLegalMoves(gameState, color) = {} THEN "true"
  ELSE "false"

\* getEndgameState of the rules engine: an EndgameState, or "throws"
ChessGame_getEndgameState(gameState) ==
  IF getAllLegalMovesThrows(gameState, gameState.turn) THEN "throws"
  ELSE IF getAllLegalMoves(gameState, gameState.turn) # {} THEN "inProgress"
  ELSE IF isCheckmate(gameState, "white") # "false"
  THEN (IF isCheckmate(gameState, "white") = "true" THEN "checkmateWhite" ELSE "throws")
  ELSE IF isCheckmate(gameState, "black") # "false"
  THEN (IF isCheckmate(gameState, "black") = "true" THEN "checkmateBlack" ELSE "throws")
  ELSE "draw"

\* hashCellState returns "empty" for an empty cell and has no return
\* statement on the other path, so that hashGameState appends "undefined"
hashCellState(cellState) ==
  IF cellState.type = "empty" THEN "empty" ELSE "undefined"

RECURSIVE hashCells(_, _)
hashCells(gameState, k) ==
  IF k = 64 THEN <<>>
  ELSE <<hashCellState(gameState.boardState[<<k \div 8, k % 8>>])>>
         \o hashCells(gameState, k + 1)

\* the hash string, as the sequence of the parts the commas separate
ChessGame_hashGameState(gameState) == <<gameState.turn>> \o hashCells(gameState, 0)

----------------------------------------------------------------------------
(* Promises.  A promise is named by the call that made it; the promise of   *)
(* a terminal state, Promise.resolve(v), carries its value as well.         *)

NoRef == [kind |-> "none", id |-> <<>>, v |-> 0]
NodeRef(n) == [kind |-> "node", id |-> n, v |-> 0]
ConstRef(v) == [kind |-> "const", id |-> <<>>, v |-> v]

Pending == [st |-> "pending", value |-> 0, used |-> 0, move |-> "none"]
Resolved(v, u) == [st |-> "resolved", value |-> v, used |-> u, move |-> "none"]
Rejected == [st |-> "rejected", value |-> 0, used |-> 0, move |-> "none"]

NoTask ==
  [kind |-> "none", pc |-> "none", dref |-> <<>>, tires |-> 0, calls |-> 0,
   value |-> 0, list |-> <<>>, why |-> "none"]

NoDesc == [st |-> "none", tries |-> 0, calls |-> 0]

\* Infinity, above every value in tenths
Infinity == 1000

NewNode(kind, pos, depth, budget, maximizingPlayer) ==
  [kind |-> kind, pos |-> pos, depth |-> depth, budget |-> budget,
   maximizingPlayer |-> maximizingPlayer, alpha |-> -Infinity, beta |-> Infinity,
   pc |-> "start", mode |-> "none", ref |-> NoRef, seen |-> -1, used |-> 0,
   res |-> Pending, succ |-> <<>>, task |-> NoTask, desc |-> NoDesc]

\* the agent's state as one value, for the synchronous segments
St ==
  [node |-> node, mmc |-> minimaxCache, sc |-> successorsCache,
   dc |-> gameDescriptionCache]

Commit(S) ==
  /\ node' = S.node
  /\ minimaxCache' = S.mmc
  /\ successorsCache' = S.sc
  /\ gameDescriptionCache' = S.dc
  /\ UNCHANGED <<cfg, gameStates, lastOp>>

AddNode(S, n, rec) == [S EXCEPT !.node = (n :> rec) @@ S.node]

----------------------------------------------------------------------------
(* LLMMinimaxAgent *)

\* a retry test that is off by one
RetryAllowedOffByOne(tries) == tries <= maxLLMTries

\* while((!messageChoices) && tries++ < maxLLMTries): may another call be made
RetryAllowed(tries) == tries < maxLLMTries

\* a description cache that is never found filled
gameDescriptionCacheNeverHas(dc, h) == FALSE

gameDescriptionCacheHas(dc, h) == h \in DOMAIN dc

\* a getGameDescription that computes the description again when the
\* cached computation has failed
getGameDescriptionAgainAfterFailure(S, n) ==
  LET h == hashGameState(S.node[n].pos) IN
  IF gameDescriptionCacheHas(S.dc, h) /\ S.node[S.dc[h]].desc.st # "rejected"
  THEN [S EXCEPT !.node[n].task.dref = S.dc[h]]
  ELSE [S EXCEPT !.node[n].desc = [st |-> "calling", tries |-> 1, calls |-> 1],
                 !.node[n].task.dref = n,
                 !.dc = (h :> n) @@ S.dc]

\* getGameDescription up to its await, called by the task of call n:
\* probe the cache; on a miss start the describe task (its first oracle
\* call is issued inside the Promise constructor) and store the promise
getGameDescription(S, n) ==
  LET h == hashGameState(S.node[n].pos) IN
  IF gameDescriptionCacheHas(S.dc, h)
  THEN [S EXCEPT !.node[n].task.dref = S.dc[h]]
  ELSE [S EXCEPT !.node[n].desc = [st |-> "calling", tries |-> 1, calls |-> 1],
                 !.node[n].task.dref = n,
                 !.dc = (h :> n) @@ S.dc]

\* stateEvaluation up to its first await
stateEvaluation(S, n) ==
  getGameDescription(
    [S EXCEPT !.node[n].task = [NoTask EXCEPT !.kind = "SE", !.pc = "awaitDesc"]], n)

\* getSuccessors up to its first await
getSuccessors(S, n) ==
  getGameDescription(
    [S EXCEPT !.node[n].task = [NoTask EXCEPT !.kind = "GS", !.pc = "awaitDesc"]], n)

----------------------------------------------------------------------------
(* CompressedMinimax *)

\* a publication that is put off until after the await
addToMinimaxCacheAfterAwait(mmc, h, entry) == mmc

\* a publication that leaves an existing entry of equal budget in place
addToMinimaxCacheKeepsEqual(mmc, h, entry) ==
  IF h \in DOMAIN mmc /\ mmc[h].budget >= entry.budget
  THEN mmc
  ELSE (h :> entry) @@ mmc

\* a publication that replaces whatever entry there is
addToMinimaxCacheAlways(mmc, h, entry) == (h :> entry) @@ mmc

\* the entry is stored unless the existing entry's budget is greater
addToMinimaxCache(mmc, h, entry) ==
  IF h \in DOMAIN mmc /\ mmc[h].budget > entry.budget
  THEN mmc
  ELSE (h :> entry) @@ mmc

Abs(x) == IF x < 0 THEN -x ELSE x

\* a cache probe with the two budgets the wrong way round
CacheUsableSwapped(entryBudget, budget) ==
  \/ budget >= entryBudget
  \/ Abs(entryBudget - budget) < budgetCacheTolerance

\* the cache probe of minimax: is the entry good for the requested budget
CacheUsable(entryBudget, budget) ==
  \/ entryBudget >= budget
  \/ Abs(entryBudget - budget) < budgetCacheTolerance

\* a successors cache that is never found filled
successorsCacheGetNothing(sc, h) == NoRef

successorsCacheGet(sc, h) == IF h \in DOMAIN sc THEN NodeRef(sc[h]) ELSE NoRef

\* a share that leaves the probability out
ShareUndivided(budget, probability) == budget

\* budget * successor.probability, the probability being a fraction
Share(budget, probability) == (budget * probability.num) \div probability.den

costSetup == cfg.costSetup

\* the field `parallel` of the agent, true unless the agent was made serial
parallel == IF "parallel" \in DOMAIN cfg THEN cfg.parallel ELSE TRUE

\* a leaf decision whose depth test is off by one
IsLeafDepthOffByOne(nd, realizedGetSuccessorsCost, estimatedNumberOfSuccessors) ==
  \/ nd.depth > costSetup.maxDepth
  \/ nd.budget < realizedGetSuccessorsCost
                   + estimatedNumberOfSuccessors * costSetup.stateEvaluationCost
                   + nd.used

\* the leaf decision of the promise executor of minimax
IsLeaf(nd, realizedGetSuccessorsCost, estimatedNumberOfSuccessors) ==
  \/ nd.depth >= costSetup.maxDepth
  \/ nd.budget < realizedGetSuccessorsCost
                   + estimatedNumberOfSuccessors * costSetup.stateEvaluationCost
                   + nd.used

\* the leaf branch up to its await: charge the evaluation, call stateEvaluation
LeafBranch(S, n) ==
  stateEvaluation(
    [S EXCEPT !.node[n].used = @ + costSetup.stateEvaluationCost,
              !.node[n].pc = "awaitEval",
              !.node[n].mode = "leaf"], n)

\* the promise executor of minimax up to its first await when the
\* successors cache has no entry for the state
ExecutorUncached(S, n) ==
  LET nd == S.node[n]
      h == hashGameState(nd.pos)
  IN IF IsLeaf(nd, costSetup.getSuccessorsCost, estimateNumberOfSuccessors)
     THEN LeafBranch(S, n)
     ELSE LET S1 == getSuccessors(
                      [S EXCEPT !.node[n].used = @ + costSetup.getSuccessorsCost,
                                !.node[n].pc = "awaitSucc",
                                !.node[n].mode = "expand",
                                !.node[n].ref = NodeRef(n)], n)
          IN [S1 EXCEPT !.sc = (h :> n) @@ S1.sc]

\* minimax from its call to its first await (or to its return, for a
\* terminal state): cache probe, terminal probe, promise executor,
\* publication of the pending entry
minimax(S, n, depth, pos, budget, alpha, beta, maximizingPlayer) ==
  LET h == hashGameState(pos)
      base == [NewNode("minimax", pos, depth, budget, maximizingPlayer)
                 EXCEPT !.alpha = alpha, !.beta = beta]
      seen == IF h \in DOMAIN S.mmc THEN S.mmc[h].budget ELSE -1
      usedBudget == costSetup.basicMinimaxCost
      endgameState == getEndgameState(pos)
  IN IF h \in DOMAIN S.mmc /\ CacheUsable(S.mmc[h].budget, budget)
     THEN AddNode(S, n, [base EXCEPT !.pc = "awaitCache", !.mode = "cache",
                                     !.ref = S.mmc[h].promise, !.seen = seen])
     ELSE IF endgameState \in {"checkmateWhite", "checkmateBlack"}
     THEN LET v == IF endgameState = "checkmateWhite" THEN -10 ELSE 10
              S1 == AddNode(S, n, [base EXCEPT !.pc = "done", !.mode = "terminal",
                                               !.seen = seen, !.used = usedBudget,
                                               !.res = Resolved(v, usedBudget)])
          IN [S1 EXCEPT !.mmc = addToMinimaxCache(S1.mmc, h,
                                  [promise |-> [ConstRef(v) EXCEPT !.id = n],
                                   budget |-> usedBudget])]
     ELSE LET S1 == AddNode(S, n, [base EXCEPT !.seen = seen, !.used = usedBudget])
              cached == successorsCacheGet(S1.sc, h)
              S2 == IF cached = NoRef
                    THEN ExecutorUncached(S1, n)
                    ELSE [S1 EXCEPT !.node[n].pc = "awaitCachedSucc",
                                    !.node[n].ref = cached]
          IN [S2 EXCEPT !.mmc = addToMinimaxCache(S2.mmc, h,
                                  [promise |-> NodeRef(n), budget |-> budget])]

\* the loop that calls minimax for every successor; each call runs to its
\* first await before the next one starts
RECURSIVE LaunchFrom(_, _, _, _, _)
LaunchFrom(S, n, successors, budgetForSearch, k) ==
  IF k > Len(successors)
  THEN S
  ELSE LaunchFrom(
         minimax(S, n \o <<k>>, S.node[n].depth + 1, successors[k].nextState,
                 Share(budgetForSearch, successors[k].probability),
                 -Infinity, Infinity, ~S.node[n].maximizingPlayer),
         n, successors, budgetForSearch, k + 1)

\* minimaxParallelTreeSearch up to its await of Promise.all
minimaxParallelTreeSearch(S, n, successors, budgetForSearch) ==
  LaunchFrom([S EXCEPT !.node[n].succ = successors,
                       !.node[n].pc = "awaitChildren"],
             n, successors, budgetForSearch, 1)

\* one iteration of the loop of minimaxSerialTreeSearch up to its await:
\* minimax is called for successor k with the alpha and beta of the loop
SerialLaunch(S, n, k) ==
  LET nd == S.node[n] IN
  minimax(S, n \o <<k>>, nd.depth + 1, nd.succ[k].nextState,
          Share(nd.budget - nd.used, nd.succ[k].probability),
          nd.alpha, nd.beta, ~nd.maximizingPlayer)

\* minimaxSerialTreeSearch up to its await of the first successor's minimax
minimaxSerialTreeSearch(S, n, successors, budgetForSearch) ==
  SerialLaunch([S EXCEPT !.node[n].succ = successors,
                         !.node[n].pc = "awaitChild"], n, 1)

\* the tree search the executor of minimax calls
minimaxTreeSearch(S, n, successors, budgetForSearch) ==
  IF parallel
  THEN minimaxParallelTreeSearch(S, n, successors, budgetForSearch)
  ELSE minimaxSerialTreeSearch(S, n, successors, budgetForSearch)

\* an executor that estimates the fixed number of successors although the
\* successors are cached
ExecutorCachedFixedEstimate(S, n, cachedSuccessors) ==
  LET nd == S.node[n] IN
  IF IsLeaf(nd, 0, estimateNumberOfSuccessors)
  THEN LeafBranch(S, n)
  ELSE minimaxTreeSearch([S EXCEPT !.node[n].mode = "expand"], n,
                         cachedSuccessors, nd.budget - nd.used)

\* the promise executor of minimax after its await of the cached successors
ExecutorCached(S, n, cachedSuccessors) ==
  LET nd == S.node[n] IN
  IF IsLeaf(nd, 0, Len(cachedSuccessors))
  THEN LeafBranch(S, n)
  ELSE minimaxTreeSearch([S EXCEPT !.node[n].mode = "expand"], n,
                         cachedSuccessors, nd.budget - nd.used)

\* selectMove from its call to its await of the successors
selectMove(S, n, pos) ==
  LET h == hashGameState(pos)
      cached == successorsCacheGet(S.sc, h)
      base == NewNode("select", pos, 0, costSetup.totalBudget, turn(pos) = "white")
  IN IF cached = NoRef
     THEN LET S1 == getSuccessors(
                      AddNode(S, n, [base EXCEPT
                                !.budget = @ - costSetup.getSuccessorsCost,
                                !.pc = "awaitSucc", !.ref = NodeRef(n)]), n)
          IN [S1 EXCEPT !.sc = (h :> n) @@ S1.sc]
     ELSE AddNode(S, n, [base EXCEPT !.pc = "awaitSucc", !.ref = cached])

----------------------------------------------------------------------------
(* Reductions *)

Children(n) == {n \o <<k>> : k \in 1..Len(node[n].succ)}

RECURSIVE SumUsed(_, _)
SumUsed(n, k) ==
  IF k = 0 THEN 0 ELSE SumUsed(n, k - 1) + node[n \o <<k>>].res.used

\* a reduction with the two comparisons exchanged
RECURSIVE ReduceIdxExchanged(_, _, _)
ReduceIdxExchanged(n, k, maximizingPlayer) ==
  IF k = 1 THEN 1
  ELSE LET prev == ReduceIdxExchanged(n, k - 1, maximizingPlayer)
           pv == node[n \o <<prev>>].res.value
           cv == node[n \o <<k>>].res.value
       IN IF maximizingPlayer
          THEN (IF pv < cv THEN prev ELSE k)
          ELSE (IF pv > cv THEN prev ELSE k)

\* a reduction that keeps the earlier of two equal values
RECURSIVE ReduceIdxKeepsEarlier(_, _, _)
ReduceIdxKeepsEarlier(n, k, maximizingPlayer) ==
  IF k = 1 THEN 1
  ELSE LET prev == ReduceIdxKeepsEarlier(n, k - 1, maximizingPlayer)
           pv == node[n \o <<prev>>].res.value
           cv == node[n \o <<k>>].res.value
       IN IF maximizingPlayer
          THEN (IF pv >= cv THEN prev ELSE k)
          ELSE (IF pv <= cv THEN prev ELSE k)

\* results.reduce((prev, current) => prev > current ? prev : current) and
\* its mirror image: the index of the child that is kept
RECURSIVE ReduceIdx(_, _, _)
ReduceIdx(n, k, maximizingPlayer) ==
  IF k = 1 THEN 1
  ELSE LET prev == ReduceIdx(n, k - 1, maximizingPlayer)
           pv == node[n \o <<prev>>].res.value
           cv == node[n \o <<k>>].res.value
       IN IF maximizingPlayer
          THEN (IF pv > cv THEN prev ELSE k)
          ELSE (IF pv < cv THEN prev ELSE k)

\* Math.max(...values) / Math.min(...values)
BestValue(n, maximizingPlayer) ==
  LET vals == {node[c].res.value : c \in Children(n)} IN
  IF maximizingPlayer
  THEN CHOOSE v \in vals : \A w \in vals : v >= w
  ELSE CHOOSE v \in vals : \A w \in vals : v <= w

----------------------------------------------------------------------------
(* What a task sees of the promise it awaits *)

\* a minimax cache promise: Promise.resolve(v), or the value of the
\* minimax call that published it
RefStatus(ref) == IF ref.kind = "const" THEN "resolved" ELSE node[ref.id].res.st

\* an await that takes the value of the entry the cache holds now
RefValueOfCurrentEntry(ref) ==
  IF ref.kind = "const" THEN ref.v
  ELSE LET current == minimaxCache[hashGameState(node[ref.id].pos)].promise IN
       IF current.kind = "const" THEN current.v
       ELSE IF node[current.id].res.st = "resolved" THEN node[current.id].res.value
       ELSE node[ref.id].res.value

RefValue(ref) == IF ref.kind = "const" THEN ref.v ELSE node[ref.id].res.value

\* a successors cache promise: the getSuccessors call of the publisher
SuccStatus(ref) == node[ref.id].task.pc

SuccList(ref) == node[ref.id].task.list

Settled == {"resolved", "rejected"}

Nodes == DOMAIN node

----------------------------------------------------------------------------
(* The oracle answers.  The try counters are locals of the retry loops:   *)
(* they are kept while a loop runs and when it ends in an error, and are   *)
(* gone once the task has its answer.                                      *)

\* the describe call of the description task started by call n returns
DescribeReturns(n) ==
  /\ node[n].desc.st = "calling"
  /\ node' = [node EXCEPT ![n].desc = [NoDesc EXCEPT !.st = "resolved"]]
  /\ UNCHANGED <<minimaxCache, successorsCache, gameDescriptionCache, cfg,
                  gameStates, lastOp>>

\* the describe call throws: the loop retries or the task rejects
DescribeThrows(n) ==
  /\ node[n].desc.st = "calling"
  /\ node' = [node EXCEPT ![n].desc =
                IF RetryAllowed(@.tries)
                THEN [@ EXCEPT !.tries = @ + 1, !.calls = @ + 1]
                ELSE [@ EXCEPT !.tries = @ + 1, !.st = "rejected"]]
  /\ UNCHANGED <<minimaxCache, successorsCache, gameDescriptionCache, cfg,
                  gameStates, lastOp>>

\* a resumption that does not wait for the description
DescriptionReadyNotAwaited(n) ==
  /\ node[n].task.pc = "awaitDesc"
  /\ node' = [node EXCEPT ![n].task =
                IF @.kind = "SE"
                THEN [@ EXCEPT !.pc = "awaitLLM", !.tires = @ + 1, !.calls = @ + 1]
                ELSE [@ EXCEPT !.pc = "awaitLLM", !.calls = @ + 1]]
  /\ UNCHANGED <<minimaxCache, successorsCache, gameDescriptionCache, cfg,
                  gameStates, lastOp>>

\* stateEvaluation / getSuccessors resume with the description (or its
\* failure) and enter their retry loop
DescriptionReady(n) ==
  /\ node[n].task.pc = "awaitDesc"
  /\ node[node[n].task.dref].desc.st \in Settled
  /\ node' = [node EXCEPT ![n].task =
                IF node[@.dref].desc.st = "rejected"
                THEN [@ EXCEPT !.pc = "rejected", !.why = "description"]
                ELSE IF @.kind = "SE"
                THEN [@ EXCEPT !.pc = "awaitLLM", !.tires = @ + 1, !.calls = @ + 1]
                ELSE [@ EXCEPT !.pc = "awaitLLM", !.calls = @ + 1]]
  /\ UNCHANGED <<minimaxCache, successorsCache, gameDescriptionCache, cfg,
                  gameStates, lastOp>>

\* the evaluate call returns P(white) = v
EvaluateReturns(n, v) ==
  /\ node[n].task.kind = "SE"
  /\ node[n].task.pc = "awaitLLM"
  /\ node' = [node EXCEPT ![n].task =
                [@ EXCEPT !.pc = "resolved", !.value = v,
                          !.tires = 0, !.calls = 0]]
  /\ UNCHANGED <<minimaxCache, successorsCache, gameDescriptionCache, cfg,
                  gameStates, lastOp>>

\* the evaluate call throws
EvaluateThrows(n) ==
  /\ node[n].task.kind = "SE"
  /\ node[n].task.pc = "awaitLLM"
  /\ node' = [node EXCEPT ![n].task =
                IF RetryAllowed(@.tires)
                THEN [@ EXCEPT !.tires = @ + 1, !.calls = @ + 1]
                ELSE [@ EXCEPT !.tires = @ + 1, !.pc = "rejected",
                               !.why = "exhausted"]]
  /\ UNCHANGED <<minimaxCache, successorsCache, gameDescriptionCache, cfg,
                  gameStates, lastOp>>

\* progressions whose probability is 1 over the number of moves asked for
ProgressionsOverTarget(moves) ==
  [k \in 1..Len(moves) |->
     [nextState |-> moves[k].nextState, move |-> moves[k].move,
      probability |-> [num |-> 1, den |-> targetSuccessorCount]]]

\* constantProbability = 1 / moves.length, as a fraction, for every move
Progressions(moves) ==
  [k \in 1..Len(moves) |->
     [nextState |-> moves[k].nextState, move |-> moves[k].move,
      probability |-> [num |-> 1, den |-> Len(moves)]]]

\* the successor call returns an answer that names the legal moves `moves`
SuccessorsReturns(n, moves) ==
  /\ node[n].task.kind = "GS"
  /\ node[n].task.pc = "awaitLLM"
  /\ node' = [node EXCEPT ![n].task =
                [@ EXCEPT !.pc = "resolved", !.list = Progressions(moves),
                          !.tires = 0, !.calls = 0]]
  /\ UNCHANGED <<minimaxCache, successorsCache, gameDescriptionCache, cfg,
                  gameStates, lastOp>>

\* the successor call returns an answer that names no legal move
SuccessorsMalformed(n) ==
  /\ node[n].task.kind = "GS"
  /\ node[n].task.pc = "awaitLLM"
  /\ node' = [node EXCEPT ![n].task =
                IF @.tires + 1 >= maxLLMTries
                THEN [@ EXCEPT !.tires = @ + 1, !.pc = "rejected",
                               !.why = "exhausted"]
                ELSE [@ EXCEPT !.tires = @ + 1, !.calls = @ + 1]]
  /\ UNCHANGED <<minimaxCache, successorsCache, gameDescriptionCache, cfg,
                  gameStates, lastOp>>

\* the successor call throws: catch, continue
SuccessorsThrows(n) ==
  /\ node[n].task.kind = "GS"
  /\ node[n].task.pc = "awaitLLM"
  /\ node[n].task.calls < CallCap
  /\ node' = [node EXCEPT ![n].task =
                IF @.tires >= maxLLMTries
                THEN [@ EXCEPT !.pc = "rejected", !.why = "exhausted"]
                ELSE [@ EXCEPT !.calls = @ + 1]]
  /\ UNCHANGED <<minimaxCache, successorsCache, gameDescriptionCache, cfg,
                  gameStates, lastOp>>

\* the evaluate call returns an answer with log-probabilities that lack
\* top_logprobs, or lack the white or the black token: stateEvaluation throws
EvaluateUnusable(n) ==
  /\ node[n].task.kind = "SE"
  /\ node[n].task.pc = "awaitLLM"
  /\ node' = [node EXCEPT ![n].task = [@ EXCEPT !.pc = "rejected",
                                                !.why = "unusable"]]
  /\ UNCHANGED <<minimaxCache, successorsCache, gameDescriptionCache, cfg,
                  gameStates, lastOp>>

\* the successor call returns a choice without message content
SuccessorsNoContent(n) ==
  /\ node[n].task.kind = "GS"
  /\ node[n].task.pc = "awaitLLM"
  /\ node' = [node EXCEPT ![n].task = [@ EXCEPT !.pc = "rejected",
                                                !.why = "nocontent"]]
  /\ UNCHANGED <<minimaxCache, successorsCache, gameDescriptionCache, cfg,
                  gameStates, lastOp>>

----------------------------------------------------------------------------
(* The search resumes *)

\* the game state passed to the i-th selectMove call on the agent
RootOf(i) == IF "roots" \in DOMAIN cfg THEN cfg.roots[i] ELSE cfg.root

\* a selectMove call is made on the agent
StartSearch(i) ==
  /\ i = Cardinality({n \in Nodes : Len(n) = 1}) + 1
  /\ i <= cfg.searches
  /\ Commit(selectMove(St, <<i>>, RootOf(i)))

\* selectMove resumes from `await successorsPromise`
SelectSuccessorsReady(n) ==
  /\ node[n].kind = "select"
  /\ node[n].pc = "awaitSucc"
  /\ SuccStatus(node[n].ref) \in Settled
  /\ Commit(IF SuccStatus(node[n].ref) = "rejected"
            THEN [St EXCEPT !.node[n].pc = "done", !.node[n].res = Rejected]
            ELSE LaunchFrom([St EXCEPT !.node[n].succ = SuccList(node[n].ref),
                                       !.node[n].pc = "awaitChildren"],
                            n, SuccList(node[n].ref), node[n].budget, 1))

\* selectMove resumes from `await Promise.all(subnodeExplorations)`
SelectChildrenReady(n) ==
  /\ node[n].kind = "select"
  /\ node[n].pc = "awaitChildren"
  /\ \/ \E c \in Children(n) : node[c].res.st = "rejected"
     \/ \A c \in Children(n) : node[c].res.st = "resolved"
  /\ node' = [node EXCEPT ![n] =
       IF \E c \in Children(n) : node[c].res.st = "rejected"
       THEN [@ EXCEPT !.pc = "done", !.res = Rejected]
       ELSE LET k == ReduceIdx(n, Len(node[n].succ), node[n].maximizingPlayer) IN
            [@ EXCEPT !.pc = "done",
                      !.res = [st |-> "resolved",
                               value |-> node[n \o <<k>>].res.value,
                               used |-> SumUsed(n, Len(node[n].succ)),
                               move |-> node[n].succ[k].move]]]
  /\ UNCHANGED <<minimaxCache, successorsCache, gameDescriptionCache, cfg,
                  gameStates, lastOp>>

\* minimax resumes from `await cacheResult.computedValue`
MinimaxCacheReady(n) ==
  /\ node[n].pc = "awaitCache"
  /\ RefStatus(node[n].ref) \in Settled
  /\ node' = [node EXCEPT ![n] =
       IF RefStatus(node[n].ref) = "rejected"
       THEN [@ EXCEPT !.pc = "done", !.res = Rejected]
       ELSE [@ EXCEPT !.pc = "done", !.res = Resolved(RefValue(node[n].ref), node[n].used)]]
  /\ UNCHANGED <<minimaxCache, successorsCache, gameDescriptionCache, cfg,
                  gameStates, lastOp>>

\* the executor resumes from `await cachedSuccessorsPromise`; the await is
\* outside every try, so a rejection ends the executor and nothing settles
\* minimaxResultPromise
MinimaxCachedSuccReady(n) ==
  /\ node[n].pc = "awaitCachedSucc"
  /\ SuccStatus(node[n].ref) \in Settled
  /\ Commit(IF SuccStatus(node[n].ref) = "rejected"
            THEN [St EXCEPT !.node[n].pc = "dead"]
            ELSE ExecutorCached(St, n, SuccList(node[n].ref)))

\* the executor resumes from `await this.stateEvaluation(gameState)`, also
\* outside every try
MinimaxEvalReady(n) ==
  /\ node[n].pc = "awaitEval"
  /\ node[n].task.pc \in Settled
  /\ node' = [node EXCEPT ![n] =
       IF node[n].task.pc = "rejected"
       THEN [@ EXCEPT !.pc = "dead"]
       ELSE [@ EXCEPT !.pc = "done", !.res = Resolved(node[n].task.value, node[n].used)]]
  /\ UNCHANGED <<minimaxCache, successorsCache, gameDescriptionCache, cfg,
                  gameStates, lastOp>>

\* the executor resumes from `await successorsPromise` (inside try/catch)
MinimaxSuccReady(n) ==
  /\ node[n].kind = "minimax"
  /\ node[n].pc = "awaitSucc"
  /\ node[n].task.pc \in Settled
  /\ Commit(IF node[n].task.pc = "rejected"
            THEN [St EXCEPT !.node[n].pc = "done", !.node[n].res = Rejected]
            ELSE minimaxTreeSearch(St, n, node[n].task.list,
                                   node[n].budget - node[n].used))

\* the successors minimaxSerialTreeSearch has called minimax for
Launched(n) == {k \in 1..Len(node[n].succ) : n \o <<k>> \in Nodes}

SerialUsed(n) ==
  LET RECURSIVE sum(_)
      sum(k) == IF k = 0 THEN 0 ELSE sum(k - 1) + node[n \o <<k>>].res.used
  IN sum(Cardinality(Launched(n)))

\* bestValue of minimaxSerialTreeSearch after the successors called so far
SerialBest(n) ==
  LET vals == {node[n \o <<k>>].res.value : k \in Launched(n)} IN
  IF node[n].maximizingPlayer
  THEN CHOOSE v \in vals : \A w \in vals : v >= w
  ELSE CHOOSE v \in vals : \A w \in vals : v <= w

Max(a, b) == IF a >= b THEN a ELSE b
Min(a, b) == IF a <= b THEN a ELSE b

\* minimaxSerialTreeSearch resumes from `await this.minimax(...)`: it
\* updates alpha or beta, and breaks, returns after the last successor, or
\* calls minimax for the next successor; when it returns the executor
\* resolves minimaxResultPromise, when the await throws it rejects it
MinimaxSerialChildReady(n) ==
  /\ node[n].kind = "minimax"
  /\ node[n].pc = "awaitChild"
  /\ LET k == Cardinality(Launched(n))
         child == node[n \o <<k>>]
         alpha == IF node[n].maximizingPlayer
                  THEN Max(node[n].alpha, child.res.value) ELSE node[n].alpha
         beta == IF node[n].maximizingPlayer
                 THEN node[n].beta ELSE Min(node[n].beta, child.res.value)
         S1 == [St EXCEPT !.node[n].alpha = alpha, !.node[n].beta = beta]
     IN /\ child.res.st \in Settled
        /\ Commit(IF child.res.st = "rejected"
                  THEN [St EXCEPT !.node[n].pc = "done", !.node[n].res = Rejected]
                  ELSE IF beta <= alpha \/ k = Len(node[n].succ)
                  THEN [S1 EXCEPT !.node[n].pc = "done",
                                  !.node[n].used = @ + SerialUsed(n),
                                  !.node[n].res = Resolved(SerialBest(n),
                                                    node[n].used + SerialUsed(n))]
                  ELSE SerialLaunch(S1, n, k + 1))

\* minimaxParallelTreeSearch resumes from Promise.all and the executor
\* resolves or rejects minimaxResultPromise
MinimaxChildrenReady(n) ==
  /\ node[n].kind = "minimax"
  /\ node[n].pc = "awaitChildren"
  /\ \/ \E c \in Children(n) : node[c].res.st = "rejected"
     \/ \A c \in Children(n) : node[c].res.st = "resolved"
  /\ node' = [node EXCEPT ![n] =
       IF \E c \in Children(n) : node[c].res.st = "rejected"
       THEN [@ EXCEPT !.pc = "done", !.res = Rejected]
       ELSE [@ EXCEPT !.pc = "done",
                      !.used = @ + SumUsed(n, Len(node[n].succ)),
                      !.res = Resolved(BestValue(n, node[n].maximizingPlayer),
                                       node[n].used + SumUsed(n, Len(node[n].succ)))]]
  /\ UNCHANGED <<minimaxCache, successorsCache, gameDescriptionCache, cfg,
                  gameStates, lastOp>>

----------------------------------------------------------------------------
(* GameState objects.  gameStates holds the objects that are followed, by *)
(* name (none while only searches are followed): "game" is the state of    *)
(* the ChessGame on the board, "copy" the deep copy a successor is         *)
(* computed on, "nextState" the state getGameState returned last.  lastOp  *)
(* records the last operation: its move, the object it was given, the      *)
(* object it returned, what the given object held before, and the number   *)
(* of moves made on the board so far.                                      *)

undefinedGameState ==
  [turn |-> "none", boardState |-> [c \in Cells |-> blankCell], moveHistory |-> <<>>]

\* no operation yet
NoOp == [name |-> "none", plies |-> 0]

\* a cloneDeep that hands back the object it was given
cloneDeepSameObject(heap, src, dst) == [ref |-> src, heap |-> heap]

\* _.cloneDeep: a new object dst with the contents of src
cloneDeep(heap, src, dst) ==
  [ref |-> dst, heap |-> [heap EXCEPT ![dst] = heap[src]]]

\* the moves the players of the model choose among: king moves, and moves
\* of the pawns on the d and e files
PlayedFiles == {3, 4}

Playable(gameState, move) ==
  \/ gameState.boardState[move.from].type = "king"
  \/ /\ gameState.boardState[move.from].type = "pawn"
     /\ move.from[2] \in PlayedFiles

\* one entry of getAllLegalMoves for the side to move
isLegalMove(gameState, move) ==
  /\ move.from \in Cells
  /\ gameState.boardState[move.from].color = gameState.turn
  /\ move \in getMovesFromPosition(gameState, move.from)
  /\ kingPositions(makeMove(gameState, move), gameState.turn) # {}
  /\ ~doesMovePutMovingPlayerInCheck(gameState, move)

Choices(gameState) ==
  {move \in UNION {getMovesFromPosition(gameState, c) :
                     c \in {d \in Cells : gameState.boardState[d].color = gameState.turn}} :
     Playable(gameState, move) /\ isLegalMove(gameState, move)}

\* onMovePlaced / placeMoveSync: a legal move is made on the game of the
\* board
MakeMove(move) ==
  /\ lastOp.plies < MaxPly
  /\ Playable(gameStates.game, move)
  /\ isLegalMove(gameStates.game, move)
  /\ gameStates' = [gameStates EXCEPT !.game = makeMove(@, move)]
  /\ lastOp' = [name |-> "makeMove", move |-> move, input |-> "game",
                result |-> "game", before |-> gameStates.game,
                plies |-> lastOp.plies + 1]
  /\ UNCHANGED <<node, minimaxCache, successorsCache, gameDescriptionCache, cfg>>

\* the successor of the state for one legal move, as getSuccessors builds it:
\* new ChessGame(_.cloneDeep(gameState)).makeMove(move).getGameState()
GetSuccessor(move) ==
  /\ Playable(gameStates.game, move)
  /\ isLegalMove(gameStates.game, move)
  /\ LET copied == cloneDeep(gameStates, "game", "copy")
         moved == [copied.heap EXCEPT ![copied.ref] = makeMove(@, move)]
         returned == cloneDeep(moved, copied.ref, "nextState")
     IN /\ gameStates' = [returned.heap EXCEPT !.copy = undefinedGameState]
        /\ lastOp' = [name |-> "getSuccessors", move |-> move, input |-> "game",
                      result |-> returned.ref, before |-> gameStates.game,
                      plies |-> lastOp.plies]
  /\ UNCHANGED <<node, minimaxCache, successorsCache, gameDescriptionCache, cfg>>

\* the legal move from one cell to another
legalMove(gameState, from, to) ==
  CHOOSE move \in getAllLegalMoves(gameState, gameState.turn) :
    move.from = from /\ move.to = to

RECURSIVE playLine(_, _, _)
playLine(gameState, line, k) ==
  IF k > Len(line)
  THEN gameState
  ELSE playLine(makeMove(gameState, legalMove(gameState, line[k][1], line[k][2])),
                line, k + 1)

\* the games start from the initial position and from the positions after
\*   1. e4 e6 2. e5 d5
\*   1. e4 d5 2. d3 f5
\*   1. e4 d5 2. exd5 e6 3. dxe6 Ke7 4. Ke2 Kxe6 5. Ke3
Openings ==
  { <<>>,
    << <<<<1, 4>>, <<3, 4>>>>, <<<<6, 4>>, <<5, 4>>>>, <<<<3, 4>>, <<4, 4>>>>,
       <<<<6, 3>>, <<4, 3>>>> >>,
    << <<<<1, 4>>, <<3, 4>>>>, <<<<6, 3>>, <<4, 3>>>>, <<<<1, 3>>, <<2, 3>>>>,
       <<<<6, 5>>, <<4, 5>>>> >>,
    << <<<<1, 4>>, <<3, 4>>>>, <<<<6, 3>>, <<4, 3>>>>, <<<<3, 4>>, <<4, 3>>>>,
       <<<<6, 4>>, <<5, 4>>>>, <<<<4, 3>>, <<5, 4>>>>, <<<<7, 4>>, <<6, 4>>>>,
       <<<<0, 4>>, <<1, 4>>>>, <<<<6, 4>>, <<5, 4>>>>, <<<<1, 4>>, <<2, 4>>>> >> }

----------------------------------------------------------------------------
(* callGenericAgent *)

AgentDescriptors == {"human", "random", "minimax(gpt-3.5)", "minimax(gpt-4)"}

\* the descriptors callGenericAgent is called with: those of the type, and
\* one that is none of them
CalledDescriptors == AgentDescriptors \cup {"stockfish"}

\* a switch whose "human" case runs into the random agent
callGenericAgentHumanPlaysRandom(agent) ==
  CASE agent \in {"random", "human"} -> [selectMove |-> "RandomAgent", error |-> ""]
    [] agent = "minimax(gpt-3.5)" -> [selectMove |-> "gpt3_5Agent", error |-> ""]
    [] agent = "minimax(gpt-4)" -> [selectMove |-> "gpt4Agent", error |-> ""]
    [] OTHER -> [selectMove |-> "none", error |-> "Invalid agent"]

\* the switch of callGenericAgent: the agent whose selectMove is called, or
\* the error thrown
callGenericAgent(agent) ==
  CASE agent = "random" -> [selectMove |-> "RandomAgent", error |-> ""]
    [] agent = "human" ->
         [selectMove |-> "none", error |-> "Human agent should not be called"]
    [] agent = "minimax(gpt-3.5)" -> [selectMove |-> "gpt3_5Agent", error |-> ""]
    [] agent = "minimax(gpt-4)" -> [selectMove |-> "gpt4Agent", error |-> ""]
    [] OTHER -> [selectMove |-> "none", error |-> "Invalid agent"]

\* RandomAgent.selectMove: the moves it can return; none when it throws
RandomAgentSelectMove(gameState) ==
  IF getAllLegalMovesThrows(gameState, gameState.turn)
  THEN {}
  ELSE getAllLegalMoves(gameState, gameState.turn)

\* the caller awaits callGenericAgent: no call is made while a search runs
AgentIdle == \A n \in Nodes : Len(n) = 1 => node[n].res.st \in Settled

CallRecord(agent, call, result, move) ==
  [name |-> "callGenericAgent", input |-> agent, selectMove |-> call.selectMove,
   result |-> result, error |-> call.error, move |-> move,
   before |-> gameStates.game, plies |-> lastOp.plies]

\* callGenericAgent(gameState, agent) on the game of the board, up to its
\* return, or to the first await of the minimax agent's selectMove
CallGenericAgent(agent) ==
  /\ AgentIdle
  /\ LET call == callGenericAgent(agent) IN
     \/ /\ call.selectMove = "none"
        /\ lastOp' = CallRecord(agent, call, "throws", <<>>)
        /\ UNCHANGED <<node, minimaxCache, successorsCache, gameDescriptionCache>>
     \/ /\ call.selectMove = "RandomAgent"
        /\ LET returned == RandomAgentSelectMove(gameStates.game) IN
             IF returned = {}
             THEN lastOp' = CallRecord(agent, [call EXCEPT !.error = "No legal moves"],
                                       "throws", <<>>)
             ELSE \E move \in returned :
                    lastOp' = CallRecord(agent, call, "move", move)
        /\ UNCHANGED <<node, minimaxCache, successorsCache, gameDescriptionCache>>
     \/ /\ call.selectMove \in {"gpt3_5Agent", "gpt4Agent"}
        /\ Nodes = {}
        /\ cfg.searches >= 1
        /\ LET S == selectMove(St, <<1>>, cfg.root) IN
             /\ node' = S.node
             /\ minimaxCache' = S.mmc
             /\ successorsCache' = S.sc
             /\ gameDescriptionCache' = S.dc
        /\ lastOp' = CallRecord(agent, call, "pending", <<>>)
  /\ UNCHANGED <<cfg, gameStates>>

\* checkForNextMove: the move callGenericAgent returned is placed on the
\* board
PlaceAgentMove ==
  /\ lastOp.name = "callGenericAgent"
  /\ lastOp.result = "move"
  /\ lastOp.plies < MaxAgentPly
  /\ Playable(gameStates.game, lastOp.move)
  /\ gameStates' = [gameStates EXCEPT !.game = makeMove(@, lastOp.move)]
  /\ lastOp' = [name |-> "makeMove", move |-> lastOp.move, input |-> "game",
                result |-> "game", before |-> gameStates.game,
                plies |-> lastOp.plies + 1]
  /\ UNCHANGED <<node, minimaxCache, successorsCache, gameDescriptionCache, cfg>>

----------------------------------------------------------------------------
(* Specifications *)

Empty == [x \in {} |-> 0]

InitWith(searches, scenarios) ==
  /\ node = Empty
  /\ minimaxCache = Empty
  /\ successorsCache = Empty
  /\ gameDescriptionCache = Empty
  /\ \E sc \in scenarios :
       cfg = sc @@ [searches |-> searches, returned |-> <<>>]
  /\ gameStates = Empty
  /\ lastOp = NoOp

Init == InitWith(NSearch, Scenarios)

\* the oracle always answers usably
Next ==
  \/ \E i \in 1..cfg.searches : StartSearch(i)
  \/ \E n \in Nodes : DescribeReturns(n)
  \/ \E n \in Nodes : DescriptionReady(n)
  \/ \E n \in Nodes, v \in EvalValues : EvaluateReturns(n, v)
  \/ \E n \in Nodes : \E moves \in OracleMoves(node[n].pos) : SuccessorsReturns(n, moves)
  \/ \E n \in Nodes : SelectSuccessorsReady(n)
  \/ \E n \in Nodes : SelectChildrenReady(n)
  \/ \E n \in Nodes : MinimaxCacheReady(n)
  \/ \E n \in Nodes : MinimaxCachedSuccReady(n)
  \/ \E n \in Nodes : MinimaxEvalReady(n)
  \/ \E n \in Nodes : MinimaxSuccReady(n)
  \/ \E n \in Nodes : MinimaxChildrenReady(n)

Spec == Init /\ [][Next]_vars

\* one search, and an oracle that may also throw or answer unusably
InitFail == InitWith(1, Scenarios)

NextFail ==
  \/ Next
  \/ \E n \in Nodes : DescribeThrows(n)
  \/ \E n \in Nodes : EvaluateThrows(n)
  \/ \E n \in Nodes : EvaluateUnusable(n)
  \/ \E n \in Nodes : SuccessorsMalformed(n)
  \/ \E n \in Nodes : SuccessorsThrows(n)
  \/ \E n \in Nodes : SuccessorsNoContent(n)

SpecFail == InitFail /\ [][NextFail]_vars

\* selectMove calls on one agent for different game states, with an oracle
\* that may throw or answer unusably: P, then the two states a capture at P
\* leads to; or, with two plies, PQ first
RetryScenarios ==
  { [costSetup |-> DefaultCostSetup, root |-> "P", roots |-> <<"P", "PQ", "PN">>],
    [costSetup |-> TwoPlyCostSetup, root |-> "PQ", roots |-> <<"PQ", "P", "PN">>] }

InitRetry == InitWith(3, RetryScenarios)

SpecRetry == InitRetry /\ [][NextFail]_vars

\* the searches of CostScenarios, the oracle always answering
InitCosts == InitWith(NSearch, CostScenarios)

SpecCosts == InitCosts /\ [][Next]_vars

\* selectMove has returned and the agent is replaced by a new one with
\* empty caches; the move that was returned is kept for comparison
ClearAgent ==
  /\ cfg.returned = <<>>
  /\ <<1>> \in Nodes
  /\ node[<<1>>].res.st = "resolved"
  /\ node' = Empty
  /\ minimaxCache' = Empty
  /\ successorsCache' = Empty
  /\ gameDescriptionCache' = Empty
  /\ cfg' = [cfg EXCEPT !.returned = <<node[<<1>>].res.move>>]
  /\ UNCHANGED <<gameStates, lastOp>>

RunScenarios ==
  { [costSetup |-> DearEvaluationCostSetup, root |-> "D0"],
    [costSetup |-> DeepCostSetup, root |-> "K0"] }

\* one selectMove at a time on a new agent, with the stub oracle
InitRuns == InitWith(1, RunScenarios)

NextRuns ==
  \/ StartSearch(1)
  \/ \E n \in Nodes : DescribeReturns(n)
  \/ \E n \in Nodes : DescriptionReady(n)
  \/ \E n \in Nodes : EvaluateReturns(n, StubValue(node[n].pos))
  \/ \E n \in Nodes : \E moves \in OracleMoves(node[n].pos) : SuccessorsReturns(n, moves)
  \/ \E n \in Nodes : SelectSuccessorsReady(n)
  \/ \E n \in Nodes : SelectChildrenReady(n)
  \/ \E n \in Nodes : MinimaxCacheReady(n)
  \/ \E n \in Nodes : MinimaxCachedSuccReady(n)
  \/ \E n \in Nodes : MinimaxEvalReady(n)
  \/ \E n \in Nodes : MinimaxSuccReady(n)
  \/ \E n \in Nodes : MinimaxChildrenReady(n)
  \/ ClearAgent

SpecRuns == InitRuns /\ [][NextRuns]_vars

\* a node of a serial agent has broken out of the loop of
\* minimaxSerialTreeSearch
Cutoff(n) ==
  /\ node[n].kind = "minimax"
  /\ node[n].mode = "expand"
  /\ node[n].pc = "done"
  /\ node[n].res.st = "resolved"
  /\ node[n].beta <= node[n].alpha

\* selectMove of the serial agent has returned; the same call is made on a
\* new agent that is parallel.  The value the serial agent computed for the
\* root's successor is kept, and whether any of its nodes broke out of its
\* loop
SwitchToParallel ==
  /\ ~parallel
  /\ <<1>> \in Nodes
  /\ node[<<1>>].res.st = "resolved"
  /\ node' = Empty
  /\ minimaxCache' = Empty
  /\ successorsCache' = Empty
  /\ gameDescriptionCache' = Empty
  /\ cfg' = [cfg EXCEPT !.parallel = TRUE,
                        !.returned = <<[value |-> node[<<1, 1>>].res.value,
                                        move |-> node[<<1>>].res.move,
                                        cutoff |-> \E n \in Nodes : Cutoff(n)]>>]
  /\ UNCHANGED <<gameStates, lastOp>>

ModeScenarios ==
  { [costSetup |-> FourPlyCostSetup, root |-> "EP"],
    [costSetup |-> DeepCostSetup, root |-> "K0"] }

\* one selectMove on a serial agent, then the same selectMove on a parallel
\* agent, with the stub oracle
InitModes ==
  /\ node = Empty
  /\ minimaxCache = Empty
  /\ successorsCache = Empty
  /\ gameDescriptionCache = Empty
  /\ \E sc \in ModeScenarios :
       cfg = [costSetup |-> sc.costSetup, root |-> sc.root, searches |-> 1,
              returned |-> <<>>, parallel |-> FALSE]
  /\ gameStates = Empty
  /\ lastOp = NoOp

NextModes ==
  \/ StartSearch(1)
  \/ \E n \in Nodes : DescribeReturns(n)
  \/ \E n \in Nodes : DescriptionReady(n)
  \/ \E n \in Nodes : EvaluateReturns(n, StubValue(node[n].pos))
  \/ \E n \in Nodes : \E moves \in OracleMoves(node[n].pos) : SuccessorsReturns(n, moves)
  \/ \E n \in Nodes : SelectSuccessorsReady(n)
  \/ \E n \in Nodes : SelectChildrenReady(n)
  \/ \E n \in Nodes : MinimaxCacheReady(n)
  \/ \E n \in Nodes : MinimaxCachedSuccReady(n)
  \/ \E n \in Nodes : MinimaxEvalReady(n)
  \/ \E n \in Nodes : MinimaxSuccReady(n)
  \/ \E n \in Nodes : MinimaxChildrenReady(n)
  \/ \E n \in Nodes : MinimaxSerialChildReady(n)
  \/ SwitchToParallel

SpecModes == InitModes /\ [][NextModes]_vars

\* games on the board from the openings; no search is made
InitRules ==
  /\ node = Empty
  /\ minimaxCache = Empty
  /\ successorsCache = Empty
  /\ gameDescriptionCache = Empty
  /\ cfg = [costSetup |-> DefaultCostSetup, root |-> "R", searches |-> 0,
            returned |-> <<>>]
  /\ \E line \in Openings :
       gameStates = [game |-> playLine(initialGameState, line, 1),
                     copy |-> undefinedGameState, nextState |-> undefinedGameState]
  /\ lastOp = NoOp

NextRules ==
  \/ \E move \in Choices(gameStates.game) : MakeMove(move)
  \/ \E move \in Choices(gameStates.game) : GetSuccessor(move)

SpecRules == InitRules /\ [][NextRules]_vars

\* callGenericAgent is called on games on the board that start from the
\* initial position and from the last of the openings; one of the calls may
\* be for a minimax agent, whose search then runs with the oracle answering
CalledOpenings == {line \in Openings : Len(line) \in {0, 9}}

InitCall ==
  /\ node = Empty
  /\ minimaxCache = Empty
  /\ successorsCache = Empty
  /\ gameDescriptionCache = Empty
  /\ cfg = [costSetup |-> DefaultCostSetup, root |-> "R", searches |-> 1,
            returned |-> <<>>]
  /\ \E line \in CalledOpenings :
       gameStates = [game |-> playLine(initialGameState, line, 1),
                     copy |-> undefinedGameState, nextState |-> undefinedGameState]
  /\ lastOp = NoOp

NextCall ==
  \/ \E agent \in CalledDescriptors : CallGenericAgent(agent)
  \/ PlaceAgentMove
  \/ \E n \in Nodes : DescribeReturns(n)
  \/ \E n \in Nodes : DescriptionReady(n)
  \/ \E n \in Nodes, v \in EvalValues : EvaluateReturns(n, v)
  \/ \E n \in Nodes : \E moves \in OracleMoves(node[n].pos) : SuccessorsReturns(n, moves)
  \/ \E n \in Nodes : SelectSuccessorsReady(n)
  \/ \E n \in Nodes : SelectChildrenReady(n)
  \/ \E n \in Nodes : MinimaxEvalReady(n)

SpecCall == InitCall /\ [][NextCall]_vars

----------------------------------------------------------------------------
(* Properties *)

HashOf(n) == hashGameState(node[n].pos)

MinimaxNodes == {n \in Nodes : node[n].kind = "minimax"}

SelectNodes == {n \in Nodes : node[n].kind = "select"}

IsAncestor(a, n) == Len(a) < Len(n) /\ SubSeq(n, 1, Len(a)) = a

\* C1: no minimax call waits on a minimax cache entry whose completion
\* depends on that same call, that is, on the entry of a call it descends
\* from (such a call is waiting for its children), so that every selectMove
\* returns when the oracle always answers
C1_NoWaitOnOwnAncestor ==
  \A n \in MinimaxNodes :
    (node[n].pc = "awaitCache" /\ node[n].ref.kind = "node")
      => ~IsAncestor(node[n].ref.id, n)

\* C2: at every point where another task can run, each call that missed a
\* cache and started the computation has its entry in that cache: the
\* minimax entry (covering the call's budget unless the state is terminal),
\* the successors entry, the description entry
C2_PublishedBeforeSuspending ==
  /\ \A n \in MinimaxNodes :
       node[n].mode # "cache" =>
         /\ HashOf(n) \in DOMAIN minimaxCache
         /\ node[n].mode # "terminal" =>
              minimaxCache[HashOf(n)].budget >= node[n].budget
  /\ \A n \in Nodes :
       node[n].task.kind = "GS" => HashOf(n) \in DOMAIN successorsCache
  /\ \A n \in Nodes :
       node[n].desc.st # "none" => HashOf(n) \in DOMAIN gameDescriptionCache

\* a second reader found the pending minimax entry of a first one and
\* awaits it, while another awaits the pending description a first reader
\* stored
C2_Witness ==
  /\ \E n \in MinimaxNodes :
       node[n].pc = "awaitCache" /\ RefStatus(node[n].ref) = "pending"
  /\ \E n \in Nodes :
       node[n].task.pc = "awaitDesc" /\ node[n].task.dref # n
         /\ node[node[n].task.dref].desc.st = "calling"

GetSuccessorsCalls(h) ==
  Cardinality({n \in Nodes : node[n].task.kind = "GS" /\ HashOf(n) = h})

Expanded(h) ==
  \E n \in Nodes : HashOf(n) = h /\ (node[n].kind = "select" \/ node[n].mode = "expand")

Hashes == {hashGameState(p) : p \in Positions}

\* C3: over the concurrent searches, getSuccessors is invoked exactly once
\* for every state hash that is expanded, the root included
C3_OneGetSuccessorsPerHash ==
  \A h \in Hashes :
    /\ GetSuccessorsCalls(h) <= 1
    /\ Expanded(h) => GetSuccessorsCalls(h) = 1

\* two searches have both expanded the root
C3_Witness ==
  /\ Cardinality({n \in SelectNodes : node[n].pc = "awaitChildren"}) >= 2
  /\ GetSuccessorsCalls(hashGameState(cfg.root)) = 1

StateEvaluationCalls(h) ==
  Cardinality({n \in Nodes : node[n].task.kind = "SE" /\ HashOf(n) = h})

\* C4: over the concurrent searches from one root, stateEvaluation is
\* invoked at most once for each leaf state
C4_OneEvaluationPerLeaf ==
  \A h \in Hashes : StateEvaluationCalls(h) <= 1

Evaluating(n) ==
  node[n].task.kind = "SE" /\ node[n].task.pc \in {"awaitDesc", "awaitLLM"}

\* C5: stateEvaluation calls for one state that are in progress together
\* have issued at most one evaluate oracle call between them
C5_OneOracleCallForConcurrentEvaluations ==
  \A n, m \in Nodes :
    (n # m /\ node[n].pos = node[m].pos /\ Evaluating(n) /\ Evaluating(m))
      => node[n].task.calls + node[m].task.calls <= 1

DescriptionTasks(h) == {n \in Nodes : node[n].desc.st # "none" /\ HashOf(n) = h}

\* C6: the description computation is started at most once per state hash,
\* and every request for a hash awaits the future stored under it
C6_OneDescriptionPerHash ==
  /\ \A h \in Hashes : Cardinality(DescriptionTasks(h)) <= 1
  /\ \A n \in Nodes :
       node[n].task.kind # "none" =>
         /\ HashOf(n) \in DOMAIN gameDescriptionCache
         /\ node[n].task.dref = gameDescriptionCache[HashOf(n)]
         /\ node[n].task.dref \in DescriptionTasks(HashOf(n))

\* two requests for one hash, made by different calls while the description
\* is being computed, await the one stored future
C6_Witness ==
  \E n, m \in Nodes :
    /\ n # m
    /\ node[n].task.pc = "awaitDesc"
    /\ node[m].task.pc = "awaitDesc"
    /\ node[n].task.dref = n
    /\ node[m].task.dref = n
    /\ node[n].desc.st = "calling"

\* C7: a minimax request that finds an entry whose budget is at least the
\* requested one, or within budgetCacheTolerance of it, starts no
\* stateEvaluation, no getSuccessors and no description, launches no
\* child, and returns the entry's value with usedBudget 0
C7_CacheHitIsFree ==
  \A n \in MinimaxNodes :
    (/\ node[n].seen >= 0
     /\ \/ node[n].seen >= node[n].budget
        \/ Abs(node[n].seen - node[n].budget) < budgetCacheTolerance)
      => /\ node[n].mode = "cache"
         /\ node[n].task = NoTask
         /\ node[n].desc = NoDesc
         /\ node[n].succ = <<>>
         /\ node[n].res.st = "resolved" =>
              /\ node[n].res.used = 0
              /\ node[n].res.value = RefValue(node[n].ref)

\* requests were served from the cache and have returned: one by an entry
\* with the requested budget, one by an entry with a budget smaller than the
\* requested one by less than the tolerance
C7_Witness ==
  /\ \E n \in MinimaxNodes :
       /\ node[n].mode = "cache"
       /\ node[n].res.st = "resolved"
       /\ node[n].seen >= node[n].budget
  /\ \E n \in MinimaxNodes :
       /\ node[n].mode = "cache"
       /\ node[n].res.st = "resolved"
       /\ node[n].seen < node[n].budget

SearchFailed(n) ==
  \/ node[n].res.st = "rejected"
  \/ node[n].task.pc = "rejected"
  \/ node[n].pc = "dead"

\* C8: once the search of a child has failed, selectMove does not stay
\* pending: when nothing is left to run, it has rejected
C8_ChildFailureRejectsSelectMove ==
  \A r \in SelectNodes :
    ((\E n \in MinimaxNodes : IsAncestor(r, n) /\ SearchFailed(n)) /\ ~ENABLED NextFail)
      => node[r].res.st = "rejected"

\* C9: one getSuccessors invocation issues at most maxLLMTries successor
\* oracle calls, thrown calls included
C9_SuccessorCallsBounded ==
  \A n \in Nodes :
    node[n].task.kind = "GS" => node[n].task.calls <= maxLLMTries

\* C10: a description computation and an evaluate request issue at most
\* maxLLMTries oracle calls each, and end in the exhaustion error exactly
\* after maxLLMTries thrown calls
C10_DescribeAndEvaluateCallsBounded ==
  \A n \in Nodes :
    /\ node[n].desc.calls <= maxLLMTries
    /\ node[n].desc.st = "rejected" => node[n].desc.calls = maxLLMTries
    /\ node[n].task.kind = "SE" =>
         /\ node[n].task.calls <= maxLLMTries
         /\ node[n].task.why = "exhausted" => node[n].task.calls = maxLLMTries

\* one description computation and one evaluate request have run out of tries
C10_Witness ==
  /\ \E n \in Nodes : node[n].desc.st = "rejected"
  /\ \E n \in Nodes : node[n].task.kind = "SE" /\ node[n].task.why = "exhausted"

ChildValue(r, k) == node[r \o <<k>>].res.value

ChildIdx(r) == 1..Len(node[r].succ)

Returned(r) == node[r].kind = "select" /\ node[r].res.st = "resolved"

\* the children of r whose value no other child's value beats
BestChildren(r) ==
  {k \in ChildIdx(r) :
     \A j \in ChildIdx(r) :
       IF node[r].maximizingPlayer
       THEN ChildValue(r, k) >= ChildValue(r, j)
       ELSE ChildValue(r, k) <= ChildValue(r, j)}

\* C11: the move selectMove returns is the move of a proposed successor of
\* the root whose value is >= every other child's value when white is to
\* move and <= every other child's value when black is to move
C11_RootReturnsExtremeChild ==
  \A r \in SelectNodes :
    Returned(r) =>
      \E k \in BestChildren(r) :
        /\ node[r].res.move = node[r].succ[k].move
        /\ node[r].res.value = ChildValue(r, k)

\* selectMove has returned with black to move and the children's values
\* differ
C11_Witness ==
  \E r \in SelectNodes :
    /\ Returned(r)
    /\ ~node[r].maximizingPlayer
    /\ BestChildren(r) # ChildIdx(r)

FirstOf(ks) == CHOOSE k \in ks : \A j \in ks : k <= j

LastOf(ks) == CHOOSE k \in ks : \A j \in ks : k >= j

MatingChildren(r) ==
  {k \in ChildIdx(r) : getEndgameState(node[r].succ[k].nextState) = "checkmateBlack"}

\* C13: with white to move at the root and a proposed successor whose next
\* state is checkmateBlack, the move selectMove returns leads to
\* checkmateBlack
C13_MatingMoveIsReturned ==
  \A r \in SelectNodes :
    (Returned(r) /\ node[r].maximizingPlayer /\ MatingChildren(r) # {})
      => \E k \in MatingChildren(r) : node[r].res.move = node[r].succ[k].move

\* C14: with the stub oracle, selectMove on a new agent returns for a given
\* state the move it returned for that state on the agent before, whatever
\* the order in which the oracle calls complete
C14_SameMoveOnEveryRun ==
  \A r \in SelectNodes :
    (Returned(r) /\ cfg.returned # <<>>) => node[r].res.move = cfg.returned[1]

\* the GameState objects that hold a state
Live == {o \in {"game", "nextState"} : gameStates[o].turn # "none"}

SameCells(a, b) ==
  /\ a.turn = b.turn
  /\ \A c \in Cells : a.boardState[c] = b.boardState[c]

LegalMovesOf(gameState) ==
  IF getAllLegalMovesThrows(gameState, gameState.turn)
  THEN {}
  ELSE getAllLegalMoves(gameState, gameState.turn)

\* C15: two game states have equal hashes exactly when they have the same
\* side to move and the same colour, type, hasMoved and justMoved2 in every
\* cell, and two states with equal hashes have the same legal moves
C15_EqualHashIffSameCells ==
  \A a, b \in Live :
    /\ (ChessGame_hashGameState(gameStates[a]) = ChessGame_hashGameState(gameStates[b]))
         <=> SameCells(gameStates[a], gameStates[b])
    /\ (ChessGame_hashGameState(gameStates[a]) = ChessGame_hashGameState(gameStates[b]))
         => LegalMovesOf(gameStates[a]) = LegalMovesOf(gameStates[b])

\* the state the last operation produced
After == gameStates[lastOp.result]

\* C16: the state a legal move yields has the opposite side to move and
\* exactly one king of each colour
C16_OppositeSideAndOneKingEach ==
  lastOp.name # "none" =>
    /\ After.turn # lastOp.before.turn
    /\ Cardinality(kingPositions(After, "white")) = 1
    /\ Cardinality(kingPositions(After, "black")) = 1

\* the en passant captures among the legal moves of a state
LegalEnPassants(gameState) ==
  {move \in UNION {getPawnMoves(gameState, c) :
                     c \in {d \in Cells : /\ gameState.boardState[d].type = "pawn"
                                          /\ gameState.boardState[d].color = gameState.turn}} :
     move.enPassant /\ isLegalMove(gameState, move)}

\* C17: an en passant capture is a legal move only on the ply right after
\* the double step of the pawn it takes
C17_EnPassantOnlyRightAfterDoubleStep ==
  \A o \in Live :
    \A move \in LegalEnPassants(gameStates[o]) :
      LET history == gameStates[o].moveHistory IN
      /\ history # <<>>
      /\ history[Len(history)].isPawnMoving2
      /\ history[Len(history)].to = <<move.from[1], move.to[2]>>

InCheck(gameState, color) ==
  kingPositions(gameState, color) # {} /\ isCheck(gameState, color)

NoLegalMove(gameState) ==
  /\ ~getAllLegalMovesThrows(gameState, gameState.turn)
  /\ getAllLegalMoves(gameState, gameState.turn) = {}

\* C18: getEndgameState returns checkmate of a colour exactly when that
\* colour is to move, is in check and has no legal move, draw exactly when
\* the side to move has no legal move and is not in check, and inProgress
\* otherwise
C18_EndgameStateMatchesPosition ==
  \A o \in Live :
    LET gameState == gameStates[o]
        endgameState == ChessGame_getEndgameState(gameState)
        mated(color) ==
          /\ gameState.turn = color
          /\ InCheck(gameState, color)
          /\ NoLegalMove(gameState)
        drawn == NoLegalMove(gameState) /\ ~InCheck(gameState, gameState.turn)
    IN /\ endgameState \in {"checkmateWhite", "checkmateBlack", "draw", "inProgress"}
       /\ (endgameState = "checkmateWhite") <=> mated("white")
       /\ (endgameState = "checkmateBlack") <=> mated("black")
       /\ (endgameState = "draw") <=> drawn

\* C19 as stated: after a move is applied the state that was passed in is
\* unchanged and the result is a separate state
C19_ApplyLeavesInputUnchanged ==
  lastOp.name # "none" =>
    /\ gameStates[lastOp.input] = lastOp.before
    /\ lastOp.result # lastOp.input

\* C19: building a successor (deep copy, makeMove on the copy,
\* getGameState) leaves the state that was passed in unchanged and returns
\* a separate state that holds the position after the move; makeMove itself
\* updates the state of its game in place
C19_SuccessorLeavesInputUnchanged ==
  /\ lastOp.name = "getSuccessors" =>
       /\ gameStates[lastOp.input] = lastOp.before
       /\ lastOp.result # lastOp.input
       /\ After = makeMove(lastOp.before, lastOp.move)
  /\ lastOp.name = "makeMove" =>
       /\ lastOp.result = lastOp.input
       /\ gameStates[lastOp.input] = makeMove(lastOp.before, lastOp.move)

\* a successor has been built for a capture and the state it was built from
\* still holds the captured piece
C19_Witness ==
  /\ lastOp.name = "getSuccessors"
  /\ gameStates.game.boardState[lastOp.move.to].type # "empty"
  /\ gameStates.nextState.boardState[lastOp.move.from].type = "empty"

\* C20: a minimax call with depth >= maxDepth does not expand: it has no
\* getSuccessors call and launches no child, whatever its budget
C20_NoExpansionAtMaxDepth ==
  \A n \in MinimaxNodes :
    node[n].depth >= costSetup.maxDepth =>
      /\ node[n].task.kind # "GS"
      /\ node[n].mode # "expand"
      /\ node[n].succ = <<>>

\* a call at maxDepth evaluates its state although its budget would pay
\* for getSuccessors and the estimated evaluations
C20_Witness ==
  \E n \in MinimaxNodes :
    /\ node[n].depth = costSetup.maxDepth
    /\ node[n].mode = "leaf"
    /\ node[n].budget >= costSetup.getSuccessorsCost
                           + estimateNumberOfSuccessors * costSetup.stateEvaluationCost
                           + costSetup.basicMinimaxCost

\* the lists getSuccessors calls have returned
ReturnedLists ==
  {node[n].task.list : n \in {m \in Nodes : /\ node[m].task.kind = "GS"
                                            /\ node[m].task.pc = "resolved"}}

RECURSIVE SumNum(_, _)
SumNum(list, k) ==
  IF k = 0 THEN 0 ELSE SumNum(list, k - 1) + list[k].probability.num

\* C22: a list getSuccessors returns has k >= 1 entries, each with
\* probability 1/k, and its probabilities sum to 1
C22_UniformProbabilities ==
  \A list \in ReturnedLists :
    LET k == Len(list) IN
    /\ k >= 1
    /\ \A i \in 1..k : list[i].probability.num * k = list[i].probability.den
    /\ \A i \in 1..k : list[i].probability.den = list[1].probability.den
    /\ SumNum(list, k) = list[1].probability.den

\* a getSuccessors call has returned a list of two moves and another a list
\* of one move
C22_Witness ==
  \E list1, list2 \in ReturnedLists : Len(list1) = 1 /\ Len(list2) = 2

Mated(p) == getEndgameState(p) \in {"checkmateWhite", "checkmateBlack"}

MateValue(p) == IF getEndgameState(p) = "checkmateWhite" THEN -10 ELSE 10

\* C24: a minimax call on a state that is checkmate for white returns -1,
\* on one that is checkmate for black +1, with usedBudget =
\* basicMinimaxCost and without a stateEvaluation or getSuccessors call, and
\* when it returns the minimax cache has an entry for the hash of the state
\* that holds that value
C24_CheckmateReturnsMateValue ==
  [][\A n \in DOMAIN node' :
       (/\ node'[n].kind = "minimax"
        /\ Mated(node'[n].pos)
        /\ node'[n].res.st # "pending"
        /\ (n \in Nodes => node[n].res.st = "pending"))
       => LET h == hashGameState(node'[n].pos)
              v == MateValue(node'[n].pos)
          IN /\ node'[n].res = Resolved(v, costSetup.basicMinimaxCost)
             /\ node'[n].task.kind = "none"
             /\ node'[n].succ = <<>>
             /\ h \in DOMAIN minimaxCache'
             /\ LET promise == minimaxCache'[h].promise IN
                IF promise.kind = "const"
                THEN promise.v = v
                ELSE /\ node'[promise.id].res.st = "resolved"
                     /\ node'[promise.id].res.value = v
    ]_vars

\* C25: a minimax call on a draw state that misses the cache is a leaf: it
\* calls stateEvaluation and never getSuccessors, whatever its depth and
\* budget
C25_DrawIsALeaf ==
  \A n \in MinimaxNodes :
    (getEndgameState(node[n].pos) = "draw" /\ node[n].mode # "cache") =>
      /\ node[n].mode = "leaf"
      /\ node[n].task.kind = "SE"
      /\ node[n].succ = <<>>

\* the call found the successors of its state in the successors cache
FoundSuccessorsCached(n) == node[n].ref.kind = "node" /\ node[n].ref.id # n

\* the budget below which a call that has made its leaf decision is a leaf
LeafThreshold(n) ==
  costSetup.basicMinimaxCost
    + (IF FoundSuccessorsCached(n)
       THEN Len(SuccList(node[n].ref)) * costSetup.stateEvaluationCost
       ELSE costSetup.getSuccessorsCost
              + estimateNumberOfSuccessors * costSetup.stateEvaluationCost)

\* C26: a call that missed the minimax cache and was not ended by a
\* checkmate is a leaf exactly when depth >= maxDepth or budget <
\* usedBudget + realizedGetSuccessorsCost + estimate * stateEvaluationCost
\* (0 and the length of the cached list when the successors are cached,
\* getSuccessorsCost and the fixed estimate otherwise), and expands in
\* every other case; with maxDepth 2, costs 10/10/1 and totalBudget 50 no
\* child of the root expands
C26_LeafExactlyWhenDeepOrShortOfBudget ==
  /\ \A n \in MinimaxNodes :
       node[n].mode \in {"leaf", "expand"} =>
         (node[n].mode = "leaf"
            <=> \/ node[n].depth >= costSetup.maxDepth
                \/ node[n].budget < LeafThreshold(n))
  /\ costSetup = SmallBudgetCostSetup =>
       \A n \in MinimaxNodes : node[n].depth = 1 => node[n].mode # "expand"

\* a call below maxDepth whose budget would not pay for getSuccessors and
\* the estimated evaluations has expanded, the successors being cached
C26_Witness ==
  \E n \in MinimaxNodes :
    /\ node[n].mode = "expand"
    /\ FoundSuccessorsCached(n)
    /\ node[n].budget < costSetup.basicMinimaxCost + costSetup.getSuccessorsCost
                           + estimateNumberOfSuccessors * costSetup.stateEvaluationCost

\* what a call that launches its children has left of its budget: what it
\* was given (totalBudget at the root) less what it has charged by then
RemainingBudget(n) ==
  (IF node[n].kind = "select"
   THEN costSetup.totalBudget
   ELSE node[n].budget - costSetup.basicMinimaxCost)
    - (IF FoundSuccessorsCached(n) THEN 0 ELSE costSetup.getSuccessorsCost)

RECURSIVE SumBudgets(_, _)
SumBudgets(n, k) ==
  IF k = 0 THEN 0 ELSE SumBudgets(n, k - 1) + node[n \o <<k>>].budget

\* C27: each child of a call that expands is searched with budget
\* (budget - usedBudget) * probability, the budgets of the children sum to
\* budget - usedBudget, and at the root the amount that is split is
\* totalBudget - getSuccessorsCost when the successors of the root were not
\* cached and totalBudget when they were
C27_ChildrenShareRemainingBudget ==
  \A n \in Nodes :
    node[n].succ # <<>> =>
      /\ \A k \in 1..Len(node[n].succ) :
           node[n \o <<k>>].budget * node[n].succ[k].probability.den
             = RemainingBudget(n) * node[n].succ[k].probability.num
      /\ SumBudgets(n, Len(node[n].succ)) = RemainingBudget(n)

\* a selectMove that found the successors of the root cached has launched
\* two children, and a minimax call has launched a child
C27_Witness ==
  /\ \E r \in SelectNodes :
       /\ FoundSuccessorsCached(r)
       /\ Len(node[r].succ) = 2
       /\ node[r \o <<1>>].budget * 2 = costSetup.totalBudget
  /\ \E n \in MinimaxNodes : node[n].succ # <<>>

\* C28: the usedBudget a minimax call reports is at most the budget it was
\* given, and the usage summed over the children of the root is at most
\* totalBudget
C28_UsedBudgetWithinBudget ==
  /\ \A n \in MinimaxNodes :
       node[n].res.st = "resolved" => node[n].res.used <= node[n].budget
  /\ \A r \in SelectNodes :
       node[r].res.st = "resolved" => node[r].res.used <= costSetup.totalBudget

\* the minimax calls made in this step that publish an entry: those that
\* did not take their value from the cache
Publishers == {n \in DOMAIN node' \ Nodes : /\ node'[n].kind = "minimax"
                                            /\ node'[n].mode # "cache"}

\* the budget of the entry a call publishes: usedBudget for a terminal
\* state, the budget of the call otherwise
PublishedBudget(n) ==
  IF node'[n].mode = "terminal" THEN costSetup.basicMinimaxCost ELSE node'[n].budget

\* C29 as stated: an entry of the minimax cache is replaced only by an
\* entry with a strictly greater budget
C29_ReplacedOnlyByGreaterBudget ==
  [][\A h \in DOMAIN minimaxCache :
       minimaxCache'[h] # minimaxCache[h] =>
         minimaxCache[h].budget < minimaxCache'[h].budget]_vars

\* C29: an entry of the minimax cache is replaced only by an entry whose
\* budget is greater or equal, and a published entry is stored unless the
\* existing entry's budget is strictly greater: an existing entry of equal
\* budget is replaced, future included
C29_ReplacedUnlessExistingGreater ==
  [][/\ \A h \in DOMAIN minimaxCache :
          minimaxCache'[h] # minimaxCache[h] =>
            minimaxCache[h].budget <= minimaxCache'[h].budget
     /\ \A n \in Publishers :
          LET entry == minimaxCache'[hashGameState(node'[n].pos)] IN
          \/ entry.promise.id = n
          \/ entry.budget > PublishedBudget(n)
          \/ /\ entry.promise.id \in Publishers
             /\ entry.budget >= PublishedBudget(n)]_vars

\* the entry of a terminal state that a first search published has been
\* replaced by the entry of equal budget that a second search published
C29_Witness ==
  \E n \in MinimaxNodes :
    LET h == hashGameState(node[n].pos) IN
    /\ n[1] = 1
    /\ node[n].mode = "terminal"
    /\ minimaxCache[h].promise.kind = "const"
    /\ minimaxCache[h].promise.id[1] = 2
    /\ minimaxCache[h].budget = costSetup.basicMinimaxCost

\* the call found an entry for its hash whose budget was too small for it
Upgrading(n) ==
  /\ node[n].kind = "minimax"
  /\ node[n].seen >= 0
  /\ node[n].budget - node[n].seen >= budgetCacheTolerance

\* C30: a task that awaits the future of an entry returns the value of the
\* computation that made that future, also when the entry has been
\* replaced since; a call that found an entry with a budget too small for
\* it does not await that entry's future and, as a leaf, returns the value
\* of its own evaluation
C30_WaitersGetOldValueUpgraderComputes ==
  /\ \A n \in MinimaxNodes :
       (node[n].mode = "cache" /\ node[n].res.st = "resolved") =>
         IF node[n].ref.kind = "const"
         THEN node[n].res.value = node[n].ref.v
         ELSE /\ node[node[n].ref.id].res.st = "resolved"
              /\ node[n].res.value = node[node[n].ref.id].res.value
  /\ \A n \in MinimaxNodes :
       Upgrading(n) =>
         /\ node[n].mode # "cache"
         /\ node[n].pc # "awaitCache"
         /\ (node[n].mode = "leaf" /\ node[n].res.st = "resolved")
              => node[n].res.value = node[n].task.value

\* a call that awaited the future of an entry has returned the value of
\* that computation, while the entry is now that of an upgrading call
\* which has returned another value
C30_Witness ==
  \E w, u \in MinimaxNodes :
    /\ node[w].mode = "cache"
    /\ node[w].res.st = "resolved"
    /\ Upgrading(u)
    /\ node[w].ref.kind = "node"
    /\ node[u].seen = node[node[w].ref.id].budget
    /\ minimaxCache[hashGameState(node[w].pos)].promise = NodeRef(u)
    /\ node[u].res.st = "resolved"
    /\ node[u].res.value # node[w].res.value

\* C23: a call of callGenericAgent with the descriptor human, or with one
\* that is none of the known descriptors, throws, calls no agent's
\* selectMove and starts no oracle call; a call with the descriptor random
\* that returns a move returns one of the legal moves of the side to move
C23_CallGenericAgent ==
  [][(lastOp' # lastOp /\ lastOp'.name = "callGenericAgent") =>
       /\ lastOp'.input \notin {"random", "minimax(gpt-3.5)", "minimax(gpt-4)"} =>
            /\ lastOp'.result = "throws"
            /\ lastOp'.selectMove = "none"
            /\ node' = node
            /\ gameStates' = gameStates
       /\ lastOp'.input = "random" =>
            /\ node' = node
            /\ lastOp'.result = "move" =>
                 /\ isLegalMove(gameStates.game, lastOp'.move)
                 /\ gameStates.game.boardState[lastOp'.move.from].color
                      = gameStates.game.turn
            /\ lastOp'.result = "throws" =>
                 ~ \E from, to \in Cells :
                     \E move \in getMovesFromPosition(gameStates.game, from) :
                       move.to = to /\ isLegalMove(gameStates.game, move)]_vars

\* the descriptor human has been rejected after a search of a minimax agent
\* was started and a move returned for the descriptor random was placed on
\* the board
C23_Witness ==
  /\ lastOp.name = "callGenericAgent"
  /\ lastOp.input = "human"
  /\ lastOp.result = "throws"
  /\ lastOp.plies >= 1
  /\ node # Empty

OracleCallIssued(n) ==
  /\ node[n].task.kind \in {"SE", "GS"}
  /\ \/ node[n].task.pc \in {"awaitLLM", "resolved"}
     \/ node[n].task.pc = "rejected" /\ node[n].task.why # "description"

\* the describe computation for the hash of the state of call n has
\* completed with a description
DescriptionObtained(n) ==
  /\ HashOf(n) \in DOMAIN gameDescriptionCache
  /\ node[gameDescriptionCache[HashOf(n)]].desc.st = "resolved"

----------------------------------------------------------------------------
(* Reading the oracle's answers.  A move string is the sequence of its     *)
(* characters; an answer to the successor prompt is the sequence of its    *)
(* lines, a line being either text without "Moves: " or "Moves: " followed *)
(* by comma-separated move strings.                                        *)

\* the most lines an answer has
MaxLines == 3

E4 == <<"e", "4">>
PE4 == <<"P", "e", "4">>
NF3 == <<"N", "f", "3">>
ZZ == <<"z", "z">>
ShortCastle == <<"0", "-", "0">>
LongCastle == <<"0", "-", "0", "-", "0">>

\* the keys of validMoveMapping in a state where e4, Nf3 and 0-0 are legal
ParsedStateMoves == {E4, NF3, ShortCastle}

TextLine == [moves |-> FALSE, items |-> <<>>]
MovesLine(items) == [moves |-> TRUE, items |-> items]

LineKinds ==
  { TextLine, MovesLine(<<E4>>), MovesLine(<<NF3, <<"O", "-", "O">>>>),
    MovesLine(<<PE4, ZZ>>), MovesLine(<<ZZ>>) }

LlmOutputs == UNION { [1..k -> LineKinds] : k \in 0..MaxLines }

\* the texts of an answer to the evaluation prompt
Contents == {"black", "white", "Black", "draw", ""}

\* the branch of stateEvaluation for a choice without log-probabilities,
\* in tenths
stateEvaluationNoLogprobs(content) ==
  IF content = "black"
  THEN [st |-> "returned", value |-> -10]
  ELSE [st |-> "returned", value |-> 10]

\* the loop of extractMovesFromMessage over the trimmed move strings
RECURSIVE movesOf(_, _)
movesOf(mapping, moveStrings) ==
  IF moveStrings = <<>> THEN <<>>
  ELSE LET moveString == Head(moveStrings)
           rest == movesOf(mapping, Tail(moveStrings))
       IN IF moveString \in mapping THEN <<moveString>> \o rest
          ELSE IF /\ moveString # <<>>
                  /\ moveString[1] \in {"P", "p"}
                  /\ Tail(moveString) \in mapping
          THEN <<Tail(moveString)>> \o rest
          ELSE IF moveString = <<"O", "-", "O">> /\ ShortCastle \in mapping
          THEN <<ShortCastle>> \o rest
          ELSE IF moveString = <<"O", "-", "O", "-", "O">> /\ LongCastle \in mapping
          THEN <<LongCastle>> \o rest
          ELSE rest

\* /Moves: (.*)/g.exec finds the first "Moves: " of the text and captures
\* the rest of its line
regexExec(llmOutput) ==
  LET found == {i \in DOMAIN llmOutput : llmOutput[i].moves} IN
  IF found = {} THEN [null |-> TRUE, items |-> <<>>]
  ELSE [null |-> FALSE,
        items |-> llmOutput[CHOOSE i \in found : \A j \in found : i <= j].items]

extractMovesFromMessage(mapping, llmOutput) ==
  LET match == regexExec(llmOutput)
      moves == movesOf(mapping, match.items)
  IN IF match.null \/ moves = <<>>
     THEN [null |-> TRUE, moves |-> <<>>]
     ELSE [null |-> FALSE, moves |-> moves]

\* the oracle has answered: an evaluation answer without log-probabilities
\* and a successor answer
InitParse ==
  /\ node = Empty
  /\ minimaxCache = Empty
  /\ successorsCache = Empty
  /\ gameDescriptionCache = Empty
  /\ cfg = [costSetup |-> DefaultCostSetup, root |-> "R", searches |-> 0,
            returned |-> <<>>]
  /\ gameStates = Empty
  /\ \E content \in Contents, llmOutput \in LlmOutputs :
       lastOp = [name |-> "none", plies |-> 0, content |-> content,
                 llmOutput |-> llmOutput]

\* stateEvaluation reads the answer
StateEvaluationReads ==
  /\ lastOp.name = "none"
  /\ lastOp' = [name |-> "stateEvaluation", plies |-> 0, content |-> lastOp.content,
                llmOutput |-> lastOp.llmOutput,
                result |-> stateEvaluationNoLogprobs(lastOp.content)]
  /\ UNCHANGED <<node, minimaxCache, successorsCache, gameDescriptionCache, cfg,
                  gameStates>>

\* getSuccessorsInOneSingleOptionLLMCall reads the answer
ExtractMoves ==
  /\ lastOp.name = "none"
  /\ lastOp' = [name |-> "extractMovesFromMessage", plies |-> 0,
                content |-> lastOp.content, llmOutput |-> lastOp.llmOutput,
                result |-> extractMovesFromMessage(ParsedStateMoves, lastOp.llmOutput)]
  /\ UNCHANGED <<node, minimaxCache, successorsCache, gameDescriptionCache, cfg,
                  gameStates>>

NextParse == StateEvaluationReads \/ ExtractMoves

SpecParse == InitParse /\ [][NextParse]_vars

----------------------------------------------------------------------------
(* The game component (ChessGameElement).  Its ChessGame is the game of    *)
(* the board; cfg holds its other state: the agent of each colour,         *)
(* endGameState, which ChessGame object chessGame.ref is, and the agent    *)
(* calls that have not returned, each with the object its closure holds    *)
(* and the game state that was sent.                                       *)

\* the most changes of an agent selector
MaxSelectorChanges == 2

\* the most uses of the clear button
MaxClears == 1

Component ==
  [game |-> gameStates.game, ref |-> cfg.ref, whiteAgent |-> cfg.whiteAgent,
   blackAgent |-> cfg.blackAgent, endGameState |-> cfg.endGameState,
   calls |-> cfg.calls]

isBoardPlayable(C) ==
  \/ /\ C.endGameState = "inProgress"
     /\ C.game.turn = "white"
     /\ C.whiteAgent = "human"
  \/ /\ C.game.turn = "black"
     /\ C.blackAgent = "human"

\* playNextMoveIfNotUser up to its await
playNextMoveIfNotUser(C) ==
  LET agent == IF C.game.turn = "black" THEN C.blackAgent ELSE C.whiteAgent IN
  IF C.endGameState # "inProgress" \/ agent = "human"
  THEN C
  ELSE [C EXCEPT !.calls = Append(@, [ref |-> C.ref, sent |-> C.game,
                                       agent |-> agent])]

\* the effect that runs after a render in which chessGame, whiteAgent or
\* blackAgent has changed; playNextMoveIfNotUser reads the endGameState of
\* that render
useEffect(C) ==
  LET endGameState == ChessGame_getEndgameState(C.game) IN
  IF endGameState = "throws" THEN C
  ELSE [playNextMoveIfNotUser(C) EXCEPT !.endGameState = endGameState]

\* the board is given the game state of a component
Render(C, op) ==
  /\ gameStates' = [gameStates EXCEPT !.game = C.game]
  /\ cfg' = [cfg EXCEPT !.ref = C.ref, !.whiteAgent = C.whiteAgent,
                        !.blackAgent = C.blackAgent,
                        !.endGameState = C.endGameState, !.calls = C.calls,
                        !.plies = op.plies,
                        !.changes = IF op.name = "setAgent" THEN @ + 1 ELSE @]
  /\ lastOp' = op
  /\ UNCHANGED <<node, minimaxCache, successorsCache, gameDescriptionCache>>

\* a human places a legal move on the board
OnMovePlaced(move) ==
  /\ cfg.plies < MaxPly
  /\ isBoardPlayable(Component)
  /\ LET game == makeMove(gameStates.game, move)
         endGameState == ChessGame_getEndgameState(game)
         C == [Component EXCEPT
                 !.game = game,
                 !.endGameState = IF endGameState \in {"inProgress", "throws"}
                                  THEN @ ELSE endGameState]
     IN Render(useEffect(C),
               [name |-> "onMovePlaced", move |-> move, before |-> gameStates.game,
                plies |-> cfg.plies + 1])

\* setWhiteAgent or setBlackAgent of the info panel
SetAgent(color, agent) ==
  /\ cfg.changes < MaxSelectorChanges
  /\ agent # (IF color = "white" THEN cfg.whiteAgent ELSE cfg.blackAgent)
  /\ Render(useEffect(IF color = "white"
                      THEN [Component EXCEPT !.whiteAgent = agent]
                      ELSE [Component EXCEPT !.blackAgent = agent]),
            [name |-> "setAgent", color |-> color, agent |-> agent,
             plies |-> cfg.plies])

\* onClear: chessGame.ref becomes a new ChessGame
OnClear ==
  /\ cfg.ref <= MaxClears
  /\ Render(useEffect([Component EXCEPT !.game = initialGameState, !.ref = @ + 1]),
            [name |-> "onClear", plies |-> cfg.plies])

\* placeMoveSync(game, move) of a call: chessGame is the one of the render
\* the call was made in, liveGame.ref the ChessGame of the last render
placeMoveSync(C, call, move) ==
  IF call.ref # C.ref THEN [result |-> "stale", C |-> C]
  ELSE IF makeMoveThrows(C.game, move) THEN [result |-> "throws", C |-> C]
  ELSE [result |-> "applied",
        C |-> useEffect([C EXCEPT !.game = makeMove(@, move)])]

\* an agent call returns a legal move of the game state it was sent and
\* playNextMoveIfNotUser resumes
AgentReturns(k, move) ==
  /\ cfg.plies < MaxPly
  /\ LET call == cfg.calls[k]
         others == [i \in 1..(Len(cfg.calls) - 1) |->
                      IF i < k THEN cfg.calls[i] ELSE cfg.calls[i + 1]]
         placed == placeMoveSync([Component EXCEPT !.calls = others], call, move)
     IN Render(placed.C,
               [name |-> "placeMoveSync", move |-> move, sent |-> call.sent,
                before |-> gameStates.game, result |-> placed.result,
                plies |-> cfg.plies + (IF placed.result = "applied" THEN 1 ELSE 0)])

\* the games of the component are played with the double steps of the
\* pawns on the d and e files: the legal moves a human places and an agent
\* returns for a game state
BoardMoves(gameState) ==
  {move \in Choices(gameState) :
     /\ gameState.boardState[move.from].type = "pawn"
     /\ move.to[1] - move.from[1] \in {2, -2}}

\* the agents that are chosen in the selectors
SelectedAgents == {"human", "random"}

\* the component is mounted: a new game, a human for white and
\* minimax(gpt-4) for black
InitBoard ==
  /\ node = Empty
  /\ minimaxCache = Empty
  /\ successorsCache = Empty
  /\ gameDescriptionCache = Empty
  /\ cfg = [costSetup |-> DefaultCostSetup, root |-> "R", searches |-> 0,
            returned |-> <<>>, ref |-> 1, whiteAgent |-> "human",
            blackAgent |-> "minimax(gpt-4)", endGameState |-> "inProgress",
            calls |-> <<>>, plies |-> 0, changes |-> 0]
  /\ gameStates = [game |-> initialGameState,
                   copy |-> undefinedGameState, nextState |-> undefinedGameState]
  /\ lastOp = NoOp

NextBoard ==
  \/ \E move \in BoardMoves(gameStates.game) : OnMovePlaced(move)
  \/ \E color \in {"white", "black"}, agent \in SelectedAgents : SetAgent(color, agent)
  \/ OnClear
  \/ \E k \in DOMAIN cfg.calls : \E move \in BoardMoves(cfg.calls[k].sent) :
       AgentReturns(k, move)

SpecBoard == InitBoard /\ [][NextBoard]_vars

\* C31: an evaluate or successor oracle call for a state has been issued
\* only if the describe computation for the state's hash has completed
\* successfully
C31_DescriptionBeforeOracleCalls ==
  \A n \in Nodes : OracleCallIssued(n) => DescriptionObtained(n)

\* an evaluate call and a successor call are in flight
C31_Witness ==
  \E n, m \in Nodes :
    /\ node[n].task.kind = "SE" /\ node[n].task.pc = "awaitLLM"
    /\ node[m].task.kind = "GS" /\ node[m].task.pc = "awaitLLM"

\* the cells of the pieces of the side to move
OwnCells(gameState) ==
  {c \in Cells : gameState.boardState[c].color = gameState.turn}

\* C34: every move getMovesFromPosition returns for a piece of the side to
\* move on the game of the board leaves the mover's king out of check
C34_BoardMovesAreLegal ==
  gameStates # Empty =>
    \A from \in OwnCells(gameStates.game) :
      \A move \in getMovesFromPosition(gameStates.game, from) :
        (/\ ~makeMoveThrows(gameStates.game, move)
         /\ kingPositions(makeMove(gameStates.game, move), gameStates.game.turn) # {})
        => ~doesMovePutMovingPlayerInCheck(gameStates.game, move)

\* the king moves among the moves of a game state
KingMoves(gameState) ==
  UNION {getMovesFromPosition(gameState, c) :
           c \in {d \in Cells : gameState.boardState[d].type = "king"}}

Orthogonal(move) ==
  \/ move.from[1] = move.to[1] /\ Abs(move.from[2] - move.to[2]) = 1
  \/ move.from[2] = move.to[2] /\ Abs(move.from[1] - move.to[1]) = 1

\* C39: every king move of the rules engine that is not a castling goes to
\* one of the four orthogonally adjacent cells, in the moves of a piece and
\* in the legal moves of the side to move
C39_KingStepsOrthogonally ==
  \A o \in Live :
    /\ \A move \in KingMoves(gameStates[o]) : ~move.castling => Orthogonal(move)
    /\ \A move \in LegalMovesOf(gameStates[o]) :
         (gameStates[o].boardState[move.from].type = "king" /\ ~move.castling)
           => Orthogonal(move)

\* after a move on the board the king of the side to move has left its
\* first cell, has a legal move, and a cell diagonally next to it is empty and is not among its moves
C39_Witness ==
  /\ gameStates # Empty
  /\ lastOp.name = "makeMove"
  /\ \E k \in kingPositions(gameStates.game, gameStates.game.turn) :
       /\ gameStates.game.boardState[k].hasMoved
       /\ \E move \in LegalMovesOf(gameStates.game) : move.from = k
       /\ \E d \in diagonalDirections :
            /\ getPosInDirection(k, d) # undefined
            /\ isCellEmpty(gameStates.game, getPosInDirection(k, d))
            /\ \A move \in KingMoves(gameStates.game) :
                 move.to # getPosInDirection(k, d)

\* C35: a hash that has an entry in the minimax cache keeps having one, and
\* the budget of its entry never decreases
C35_EntriesStayAndBudgetsGrow ==
  [][\A h \in DOMAIN minimaxCache :
       /\ h \in DOMAIN minimaxCache'
       /\ minimaxCache'[h].budget >= minimaxCache[h].budget]_vars

\* a call on a checkmate state has found an entry with a budget too small
\* for it, has published its own smaller budget and the entry is still in
\* place; another entry has been replaced by one with a greater budget
C35_Witness ==
  /\ \E n \in MinimaxNodes :
       /\ node[n].mode = "terminal"
       /\ node[n].seen > node[n].used
       /\ minimaxCache[HashOf(n)].promise.kind = "node"
       /\ minimaxCache[HashOf(n)].budget = node[n].seen
  /\ \E m \in MinimaxNodes :
       /\ node[m].seen >= 0
       /\ minimaxCache[HashOf(m)].promise = NodeRef(m)
       /\ minimaxCache[HashOf(m)].budget > node[m].seen

\* C37: when the description computation cached for a hash has failed, the
\* cache keeps it, it makes no further describe call and no other call
\* computes a description for the hash; when the getSuccessors call cached
\* for a hash has failed, the cache keeps it, it makes no further successor
\* call and no other call runs getSuccessors for the hash
C37_FailedComputationsAreNotRetried ==
  [][/\ \A h \in DOMAIN gameDescriptionCache :
          node[gameDescriptionCache[h]].desc.st = "rejected" =>
            /\ gameDescriptionCache'[h] = gameDescriptionCache[h]
            /\ node'[gameDescriptionCache[h]].desc = node[gameDescriptionCache[h]].desc
            /\ \A m \in DOMAIN node' :
                 (hashGameState(node'[m].pos) = h /\ m # gameDescriptionCache[h])
                   => node'[m].desc = NoDesc
     /\ \A h \in DOMAIN successorsCache :
          node[successorsCache[h]].task.pc = "rejected" =>
            /\ successorsCache'[h] = successorsCache[h]
            /\ node'[successorsCache[h]].task = node[successorsCache[h]].task
            /\ \A m \in DOMAIN node' :
                 (hashGameState(node'[m].pos) = h /\ m # successorsCache[h])
                   => node'[m].task.kind # "GS"]_vars

\* a call has asked for the description of a state whose description failed
\* in an earlier search, and a later selectMove call has awaited the
\* successors that failed in an earlier search
C37_Witness ==
  /\ \E m \in Nodes :
       /\ node[m].task.why = "description"
       /\ node[m].task.dref[1] < m[1]
  /\ \E m \in SelectNodes :
       /\ node[m].res.st = "rejected"
       /\ node[m].ref.kind = "node"
       /\ node[m].ref.id[1] < m[1]
       /\ node[node[m].ref.id].task.pc = "rejected"

\* C36: the move a selectMove call returns is a legal move of the game state
\* the call was given, whatever selectMove calls the agent served before
C36_SelectedMoveIsLegalInStatePassed ==
  \A r \in SelectNodes :
    node[r].res.st = "resolved" =>
      node[r].res.move \in validMoveMapping(node[r].pos)

\* C32: for an answer without log-probabilities stateEvaluation returns -1
\* when the text is exactly black, +1 when it is exactly white, and throws
\* for any other text
C32_OtherTextIsAnError ==
  lastOp.name = "stateEvaluation" =>
    /\ lastOp.content = "black" =>
         lastOp.result = [st |-> "returned", value |-> -10]
    /\ lastOp.content = "white" =>
         lastOp.result = [st |-> "returned", value |-> 10]
    /\ lastOp.content \notin {"black", "white"} => lastOp.result.st = "thrown"

\* C33: of an answer with several "Moves: " lines the moves extracted are
\* those of the last such line
C33_MovesOfLastLine ==
  LET out == lastOp.llmOutput
      found == {i \in DOMAIN out : out[i].moves}
      last == CHOOSE i \in found : \A j \in found : j <= i
  IN (lastOp.name = "extractMovesFromMessage" /\ Cardinality(found) >= 2) =>
       lastOp.result = extractMovesFromMessage(ParsedStateMoves, <<out[last]>>)

\* C38: a move an agent call returned is applied to the live game only when
\* the game is in the position that was sent to the call
C38_AppliedOnlyToThePositionSent ==
  (lastOp.name = "placeMoveSync" /\ lastOp.result = "applied") =>
    lastOp.before = lastOp.sent

====
